---- MODULE Spec2Model ----
(***************************************************************************)
(* Model of the multi-format MCI CD-audio driver (src/mcicda_stub.c).      *)
(*                                                                         *)
(* Two threads of control touch the driver's unguarded globals: the        *)
(* caller's thread, which runs DriverProc one command at a time, and the   *)
(* PlaybackThread started by PlayTrack.  StopPlayback waits at most 2000ms *)
(* for that thread and then goes on regardless, so a thread can outlive    *)
(* the command that cancelled it.  Every access to a shared global is one  *)
(* step; statements that touch only data private to one thread are fused   *)
(* with the neighbouring step.                                             *)
(*                                                                         *)
(* A thread opens at most one output handle and decodes at most one PCM    *)
(* buffer, so handle h and buffer b carry the number of the thread that    *)
(* created them; 0 is NULL.                                                *)
(***************************************************************************)
EXTENDS Integers, Sequences, FiniteSets, TLC

(* ---- bounds ---- *)
MaxOps == 2                 \* CreateThread calls in one behaviour
MaxTimeouts == 1            \* expired waits (line 261) in one behaviour
MaxDispOps == 1             \* CreateThread calls in one behaviour of DispSpec

(* ---- inputs ---- *)
TrackArgs == {2, 3, 4, 258} \* dwFrom / dwTo values offered to Play and Seek;
                            \* 258 is TMSF track 2, minute 1
FileSets == { {<<2, 1>>, <<3, 2>>, <<3, 3>>} }
                            \* directory contents: <<track, extension index>>
StatusItems == {"NUMBER_OF_TRACKS", "CURRENT_TRACK", "LENGTH", "MODE",
                "MEDIA_PRESENT", "READY", "POSITION", "TIME_FORMAT",
                "TYPE_TRACK", "other"}
CapsItems == {"CAN_PLAY", "HAS_AUDIO", "CAN_RECORD", "HAS_VIDEO", "CAN_EJECT",
              "CAN_SAVE", "USES_FILES", "COMPOUND_DEVICE", "DEVICE_TYPE",
              "other"}

(* ---- program constants ---- *)
MCI_FORMAT_TMSF == 10
MCI_FORMAT_MILLISECONDS == 0
TimeFormats == {MCI_FORMAT_TMSF, MCI_FORMAT_MILLISECONDS}
g_extensions == <<"wav", "flac", "mp3", "ogg", "opus">>
g_formats == <<"WAV", "FLAC", "MP3", "OGG", "OPUS">>
FirstTrack == 2
LastTrack == 99
DefaultTracks == 18
TrackLength == 180000
MCI_MODE_STOP == 525
MCI_MODE_PLAY == 526
MCI_MODE_PAUSE == 529
MCI_CDA_TRACK_AUDIO == 1088
MCI_DEVTYPE_CD_AUDIO == 516
C_TRUE == 1
C_FALSE == 0

Threads == 1..MaxOps
NULL == 0

VARIABLES
    g_bOpen, g_dwCurrentTrack, g_dwNumTracks, g_dwTimeFormat,
    g_bPlaying, g_bPaused,
    g_hWinMM, g_hWaveOut, g_waveHdr, g_pAudioData, g_hPlayThread,
    g_bStopRequested,
    thr,        \* thr[t] = [pc, track]: position of PlaybackThread t
    wave,       \* wave[h] = [st, paused, queued]: the output device's view of handle h
    heap,       \* heap[b]: "none", "alloc", "freed" or "dfree" (freed twice)
    files,      \* the music directory
    cpc,        \* position of the caller's thread inside DriverProc
    cmd,        \* the command being executed, or the last one when cpc = "ready"
    ret,        \* DriverProc's return value for the last finished command
    dwReturn,   \* what cmd wrote to its parms->dwReturn; 0 when it wrote nothing
    outCalls,   \* output calls made by the caller's thread during cmd
    ntimeouts,  \* waits of StopPlayback that have expired so far
    log,        \* the event log: the lines appended to LOG_FILE, oldest first
    logOpens    \* whether fopen(LOG_FILE, "a") succeeds

devVars  == <<g_bOpen, g_dwCurrentTrack, g_dwNumTracks, g_dwTimeFormat>>
modeVars == <<g_bPlaying, g_bPaused>>
playVars == <<g_hWinMM, g_hWaveOut, g_waveHdr, g_pAudioData, g_hPlayThread,
              g_bStopRequested>>
envVars  == <<thr, wave, heap, files>>
cmdVars  == <<cpc, cmd, ret, dwReturn, outCalls, ntimeouts>>
logVars  == <<log, logOpens>>
vars == <<devVars, modeVars, playVars, envVars, cmdVars, logVars>>

(* ---------------------------------------------------------------------- *)
(* The event log                                                           *)
(* ---------------------------------------------------------------------- *)

\* A line of the log: the word it starts with, and the playback operation
\* (the thread created for it) it belongs to, 0 for a line of no operation.
\* The operation is not in the text of the line; it records which call of
\* LogCommand wrote it.
Line(text, op) == [text |-> text, op |-> op]

\* lines 88-101, for the calls one step makes: each line is appended when
\* the file opens, and nothing is written when it does not
LogCommand(lines) ==
    /\ log' = IF logOpens THEN log \o lines ELSE log
    /\ UNCHANGED logOpens

\* a step that does not call LogCommand
NoLog == UNCHANGED logVars

(* ---------------------------------------------------------------------- *)
(* Track resolver                                                          *)
(* ---------------------------------------------------------------------- *)

\* FirstExt that tries the table from its last entry to its first
RECURSIVE FirstExt_LastWins(_, _)
FirstExt_LastWins(track, i) ==
    IF i > Len(g_extensions) THEN 0
    ELSE IF <<track, Len(g_extensions) + 1 - i>> \in files
         THEN Len(g_extensions) + 1 - i
    ELSE FirstExt_LastWins(track, i + 1)

\* Index of the first extension, in g_extensions order, whose file exists;
\* 0 when the loop runs off the end of the table.
RECURSIVE FirstExt(_, _)
FirstExt(track, i) ==
    IF i > Len(g_extensions) THEN 0
    ELSE IF <<track, i>> \in files THEN i
    ELSE FirstExt(track, i + 1)

\* GetTrackPath without line 147: the buffer keeps the last path tried
GetTrackPath_KeepsPath(track) ==
    LET i == FirstExt(track, 1)
    IN IF i = 0
       THEN [format |-> "UNKNOWN",
             path |-> <<track, g_extensions[Len(g_extensions)]>>]
       ELSE [format |-> g_formats[i], path |-> <<track, g_extensions[i]>>]

\* lines 137-149: the format returned and the path left in the buffer
GetTrackPath(track) ==
    LET i == FirstExt(track, 1)
    IN IF i = 0 THEN [format |-> "UNKNOWN", path |-> <<>>]
       ELSE [format |-> g_formats[i], path |-> <<track, g_extensions[i]>>]

TrackExists(track) == GetTrackPath(track).format # "UNKNOWN"

\* CountLoop that leaves at the first missing track, found one or not
CountLoop_StopsAtGap(i, count) ==
    LET missing == {n \in i .. LastTrack : ~TrackExists(n)}
    IN IF missing = {} THEN count + (LastTrack + 1 - i)
       ELSE count + ((CHOOSE n \in missing : \A m \in missing : n <= m) - i)

\* lines 450-451, one pass of the loop body for track i: st.count is the
\* counter, st.done is set by the break
LoopBody(i, st) ==
    IF st.done THEN st
    ELSE IF TrackExists(i) THEN [st EXCEPT !.count = @ + 1]
    ELSE IF st.count > 0 THEN [st EXCEPT !.done = TRUE]
    ELSE st

\* the passes for tracks lo..hi in ascending order, taken as the passes of
\* the lower half followed by those of the upper half, which start from the
\* value the lower half has left
RECURSIVE LoopOver(_, _, _)
LoopOver(lo, hi, st) ==
    IF lo > hi THEN st
    ELSE IF lo = hi THEN LoopBody(lo, st)
    ELSE LET mid == (lo + hi) \div 2
         IN CHOOSE r \in {LoopOver(mid + 1, hi, low) :
                             low \in {LoopOver(lo, mid, st)}} : TRUE

\* the loop of lines 449-452 from track i on: a missing track ends it once
\* a track has been found, an existing track is counted
CountLoop(i, count) ==
    LoopOver(i, LastTrack, [count |-> count, done |-> FALSE]).count

\* CountTracks that returns the length of the run, without the 1 added at
\* line 453
CountTracks_RunOnly ==
    LET count == CountLoop(FirstTrack, 0)
    IN IF count > 0 THEN count ELSE DefaultTracks

\* lines 448-453
CountTracks ==
    LET count == CountLoop(FirstTrack, 0)
    IN IF count > 0 THEN count + 1 ELSE DefaultTracks

MCI_TMSF_TRACK(x) == x % 256
MCI_MAKE_TMSF(t, m, s, f) ==
    (t % 256) + 256 * (m % 256) + 65536 * (s % 256) + 16777216 * (f % 256)
\* the other three fields of a packed TMSF value
MCI_TMSF_MINUTE(x) == (x \div 256) % 256
MCI_TMSF_SECOND(x) == (x \div 65536) % 256
MCI_TMSF_FRAME(x) == (x \div 16777216) % 256

(* ---------------------------------------------------------------------- *)
(* Output device and heap                                                  *)
(* ---------------------------------------------------------------------- *)

ZeroHdr == [lpData |-> NULL, dwFlags |-> {}]
NoWave == [st |-> "none", paused |-> FALSE, queued |-> NULL]

WaveValid(h) == h # NULL /\ wave[h].st = "open"

\* waveOutReset: returns the queued buffer, marked done, and leaves pause.
ResetWave(h) == [wave EXCEPT ![h].queued = NULL, ![h].paused = FALSE]
ResetHdr(h) ==
    IF wave[h].queued # NULL
    THEN [g_waveHdr EXCEPT !.dwFlags = (@ \ {"INQUEUE"}) \cup {"DONE"}]
    ELSE g_waveHdr

\* waveOutClose fails (WAVERR_STILLPLAYING) while a buffer is queued.
CloseWave(h) ==
    IF WaveValid(h) /\ wave[h].queued = NULL
    THEN [wave EXCEPT ![h].st = "closed"]
    ELSE wave

\* waveOutUnprepareHeader fails while the header is queued.
UnprepareHdr(h) ==
    IF WaveValid(h) /\ "INQUEUE" \notin g_waveHdr.dwFlags
    THEN [g_waveHdr EXCEPT !.dwFlags = @ \ {"PREPARED"}]
    ELSE g_waveHdr

\* free(p): free(NULL) does nothing; freeing a freed block is a double free.
Free(p) ==
    IF p = NULL THEN heap
    ELSE [heap EXCEPT ![p] = IF @ = "alloc" THEN "freed" ELSE "dfree"]

(* ---------------------------------------------------------------------- *)
(* Derived state                                                           *)
(* ---------------------------------------------------------------------- *)

Alive(t) == thr[t].pc \notin {"none", "exited"}
AliveThreads == {t \in Threads : Alive(t)}
Created == {t \in Threads : thr[t].pc # "none"}

\* MCI_STATUS_MODE
Mode == IF g_bPlaying THEN (IF g_bPaused THEN "PAUSE" ELSE "PLAY") ELSE "STOP"

\* The engine holds nothing: flags down, no handle, no buffer bound, and the
\* device has no handle open.
OpenHandles == {h \in Threads : wave[h].st = "open"}
Idle ==
    /\ ~g_bPlaying /\ ~g_bPaused
    /\ g_hWaveOut = NULL /\ g_pAudioData = NULL /\ g_waveHdr.lpData = NULL
    /\ OpenHandles = {}

NoActiveOperation == Idle /\ g_hPlayThread = NULL /\ AliveThreads = {}

\* What is recorded of a command when it is taken up: the command, its
\* resolved track, and the engine's state at that moment.
Issue(op, arg) ==
    [op |-> op, arg |-> arg, pmode |-> Mode, pidle |-> NoActiveOperation]

(* ---------------------------------------------------------------------- *)
(* Initial state: the statics of the freshly loaded DLL                    *)
(* ---------------------------------------------------------------------- *)

InitStatics ==
    /\ g_bOpen = FALSE
    /\ g_dwCurrentTrack = 2
    /\ g_dwNumTracks = DefaultTracks
    /\ g_dwTimeFormat = MCI_FORMAT_TMSF
    /\ g_bPlaying = FALSE
    /\ g_bPaused = FALSE
    /\ g_hWinMM = FALSE
    /\ g_hWaveOut = NULL
    /\ g_waveHdr = ZeroHdr
    /\ g_pAudioData = NULL
    /\ g_hPlayThread = NULL
    /\ g_bStopRequested = FALSE
    /\ thr = [t \in Threads |-> [pc |-> "none", track |-> 0]]
    /\ wave = [h \in Threads |-> NoWave]
    /\ heap = [b \in Threads |-> "none"]
    /\ cpc = "ready"
    /\ cmd = [op |-> "none", arg |-> 0, pmode |-> "STOP", pidle |-> TRUE]
    /\ ret = "OK"
    /\ dwReturn = 0
    /\ outCalls = <<>>
    /\ ntimeouts = 0
    /\ log = <<>>

\* the statics, with the music directory as the environment has it.  No
\* variable of the driver depends on the log, and here the log file is one
\* that cannot be opened; LogSpec runs the driver with one that can.
Init ==
    /\ InitStatics
    /\ files \in FileSets
    /\ logOpens = FALSE

(* ---------------------------------------------------------------------- *)
(* StopPlayback, one step per access to shared state.  It runs on the      *)
(* caller's thread for Stop, Play and both close messages; cmd.op tells    *)
(* which caller to return to.                                              *)
(* ---------------------------------------------------------------------- *)

StopCallers == {"CloseDriver", "MciClose", "Play", "Stop"}

\* StopCallerLine without the call of line 520
StopCallerLine_NoStop(op) ==
    IF op = "CloseDriver" THEN <<Line("CLOSE", 0)>>
    ELSE IF op = "MciClose" THEN <<Line("MCI_CLOSE", 0)>>
    ELSE <<>>

\* lines 484, 499 and 520: the line a caller logs before it calls
\* StopPlayback.  PlayTrack logs after the call (line 397).
StopCallerLine(op) ==
    IF op = "CloseDriver" THEN <<Line("CLOSE", 0)>>
    ELSE IF op = "MciClose" THEN <<Line("MCI_CLOSE", 0)>>
    ELSE IF op = "Stop" THEN <<Line("STOP", 0)>>
    ELSE <<>>

\* the line the caller logs, then line 258 and the test of line 260
SP_Begin(c) ==
    /\ cpc = "ready"
    /\ cmd' = c
    /\ outCalls' = <<>>
    /\ g_bStopRequested' = TRUE
    /\ cpc' = IF g_hPlayThread # NULL THEN "sp_wait" ELSE "sp_reset"
    /\ UNCHANGED <<devVars, modeVars, g_hWinMM, g_hWaveOut, g_waveHdr,
                   g_pAudioData, g_hPlayThread, envVars, ret, ntimeouts>>
    /\ dwReturn' = 0
    /\ LogCommand(StopCallerLine(c.op))

\* lines 261-263: the wait returns when the thread has exited ...
SP_WaitJoined ==
    /\ cpc = "sp_wait"
    /\ thr[g_hPlayThread].pc = "exited"
    /\ g_hPlayThread' = NULL
    /\ cpc' = "sp_reset"
    /\ UNCHANGED <<devVars, modeVars, g_hWinMM, g_hWaveOut, g_waveHdr,
                   g_pAudioData, g_bStopRequested, envVars, cmd, ret,
                   dwReturn, outCalls, ntimeouts>>
    /\ NoLog

\* ... or after 2000ms with the thread still running; the handle is closed
\* and forgotten either way.
SP_WaitTimeout ==
    /\ cpc = "sp_wait"
    /\ thr[g_hPlayThread].pc # "exited"
    /\ ntimeouts < MaxTimeouts
    /\ ntimeouts' = ntimeouts + 1
    /\ g_hPlayThread' = NULL
    /\ cpc' = "sp_reset"
    /\ UNCHANGED <<devVars, modeVars, g_hWinMM, g_hWaveOut, g_waveHdr,
                   g_pAudioData, g_bStopRequested, envVars, cmd, ret,
                   dwReturn, outCalls>>
    /\ NoLog

\* lines 266-267
SP_Reset ==
    /\ cpc = "sp_reset"
    /\ IF g_hWaveOut # NULL
       THEN /\ outCalls' = Append(outCalls, "reset")
            /\ IF WaveValid(g_hWaveOut)
               THEN /\ wave' = ResetWave(g_hWaveOut)
                    /\ g_waveHdr' = ResetHdr(g_hWaveOut)
               ELSE UNCHANGED <<wave, g_waveHdr>>
            /\ cpc' = "sp_unprep"
       ELSE /\ cpc' = "sp_free"
            /\ UNCHANGED <<outCalls, wave, g_waveHdr>>
    /\ UNCHANGED <<devVars, modeVars, g_hWinMM, g_hWaveOut, g_pAudioData,
                   g_hPlayThread, g_bStopRequested, thr, heap, files, cmd,
                   ret, dwReturn, ntimeouts>>
    /\ NoLog

\* lines 268-270
SP_Unprepare ==
    /\ cpc = "sp_unprep"
    /\ IF "PREPARED" \in g_waveHdr.dwFlags
       THEN /\ outCalls' = Append(outCalls, "unprepare")
            /\ g_waveHdr' = UnprepareHdr(g_hWaveOut)
       ELSE UNCHANGED <<outCalls, g_waveHdr>>
    /\ cpc' = "sp_close"
    /\ UNCHANGED <<devVars, modeVars, g_hWinMM, g_hWaveOut, g_pAudioData,
                   g_hPlayThread, g_bStopRequested, envVars, cmd, ret,
                   dwReturn, ntimeouts>>
    /\ NoLog

\* line 271
SP_Close ==
    /\ cpc = "sp_close"
    /\ outCalls' = Append(outCalls, "close")
    /\ wave' = CloseWave(g_hWaveOut)
    /\ cpc' = "sp_hnull"
    /\ UNCHANGED <<devVars, modeVars, playVars, thr, heap, files, cmd, ret,
                   dwReturn, ntimeouts>>
    /\ NoLog

\* line 272
SP_HNull ==
    /\ cpc = "sp_hnull"
    /\ g_hWaveOut' = NULL
    /\ cpc' = "sp_free"
    /\ UNCHANGED <<devVars, modeVars, g_hWinMM, g_waveHdr, g_pAudioData,
                   g_hPlayThread, g_bStopRequested, envVars, cmd, ret,
                   dwReturn, outCalls, ntimeouts>>
    /\ NoLog

\* lines 275-276
SP_Free ==
    /\ cpc = "sp_free"
    /\ IF g_pAudioData # NULL
       THEN /\ heap' = Free(g_pAudioData)
            /\ cpc' = "sp_fnull"
       ELSE /\ cpc' = "sp_zero"
            /\ UNCHANGED heap
    /\ UNCHANGED <<devVars, modeVars, playVars, thr, wave, files, cmd, ret,
                   dwReturn, outCalls, ntimeouts>>
    /\ NoLog

\* line 277
SP_FNull ==
    /\ cpc = "sp_fnull"
    /\ g_pAudioData' = NULL
    /\ cpc' = "sp_zero"
    /\ UNCHANGED <<devVars, modeVars, g_hWinMM, g_hWaveOut, g_waveHdr,
                   g_hPlayThread, g_bStopRequested, envVars, cmd, ret,
                   dwReturn, outCalls, ntimeouts>>
    /\ NoLog

\* line 280
SP_Zero ==
    /\ cpc = "sp_zero"
    /\ g_waveHdr' = ZeroHdr
    /\ cpc' = "sp_flags"
    /\ UNCHANGED <<devVars, modeVars, g_hWinMM, g_hWaveOut, g_pAudioData,
                   g_hPlayThread, g_bStopRequested, envVars, cmd, ret,
                   dwReturn, outCalls, ntimeouts>>
    /\ NoLog

\* SP_Flags without line 282
SP_Flags_KeepPaused ==
    /\ cpc = "sp_flags"
    /\ g_bPlaying' = FALSE
    /\ cpc' = "sp_clear"
    /\ UNCHANGED <<devVars, g_bPaused, playVars, envVars, cmd, ret, dwReturn,
                   outCalls, ntimeouts>>
    /\ NoLog

\* lines 281-282; g_bPaused is private to the caller's thread
SP_Flags ==
    /\ cpc = "sp_flags"
    /\ g_bPlaying' = FALSE
    /\ g_bPaused' = FALSE
    /\ cpc' = "sp_clear"
    /\ UNCHANGED <<devVars, playVars, envVars, cmd, ret, dwReturn, outCalls, ntimeouts>>
    /\ NoLog

\* line 283, fused with what the caller does after StopPlayback returns:
\* nothing for MCI_STOP and MCI_CLOSE ...
StopReturn ==
    /\ cpc = "sp_clear"
    /\ cmd.op \in {"Stop", "MciClose"}
    /\ g_bStopRequested' = FALSE
    /\ cpc' = "ready"
    /\ ret' = "OK"
    /\ UNCHANGED <<devVars, modeVars, g_hWinMM, g_hWaveOut, g_waveHdr,
                   g_pAudioData, g_hPlayThread, envVars, cmd, dwReturn,
                   outCalls, ntimeouts>>
    /\ NoLog

\* ... line 486 for MCI_CLOSE_DRIVER ...
CloseDriverReturn ==
    /\ cpc = "sp_clear"
    /\ cmd.op = "CloseDriver"
    /\ g_bStopRequested' = FALSE
    /\ g_bOpen' = FALSE
    /\ cpc' = "ready"
    /\ ret' = "OK"
    /\ UNCHANGED <<g_dwCurrentTrack, g_dwNumTracks, g_dwTimeFormat, modeVars,
                   g_hWinMM, g_hWaveOut, g_waveHdr, g_pAudioData,
                   g_hPlayThread, envVars, cmd, dwReturn, outCalls, ntimeouts>>
    /\ NoLog

\* ... and lines 396-421 of PlayTrack for MCI_PLAY.  DriverProc drops
\* PlayTrack's result and returns 0 (lines 515-517).
NewThread == CHOOSE t \in Threads : thr[t].pc = "none" /\
                 \A u \in Threads : thr[u].pc = "none" => t <= u

PlayTrackNotFound ==
    /\ cpc = "sp_clear"
    /\ cmd.op = "Play"
    /\ GetTrackPath(cmd.arg).format = "UNKNOWN"
    /\ g_bStopRequested' = FALSE
    /\ cpc' = "ready"
    /\ ret' = "OK"
    /\ UNCHANGED <<devVars, modeVars, g_hWinMM, g_hWaveOut, g_waveHdr,
                   g_pAudioData, g_hPlayThread, envVars, cmd, dwReturn,
                   outCalls, ntimeouts>>
    /\ LogCommand(<<Line("PLAY", 0), Line("ERROR", 0)>>)

\* PlayTrackStart without the call of line 397
PlayTrackStart_Unlogged ==
    /\ cpc = "sp_clear"
    /\ cmd.op = "Play"
    /\ GetTrackPath(cmd.arg).format # "UNKNOWN"
    /\ Cardinality(Created) < MaxOps
    /\ g_dwCurrentTrack' = cmd.arg
    /\ g_bStopRequested' = FALSE
    /\ g_hPlayThread' = NewThread
    /\ thr' = [thr EXCEPT ![NewThread] = [pc |-> "decode", track |-> cmd.arg]]
    /\ cpc' = "ready"
    /\ ret' = "OK"
    /\ UNCHANGED <<g_bOpen, g_dwNumTracks, g_dwTimeFormat, modeVars, g_hWinMM,
                   g_hWaveOut, g_waveHdr, g_pAudioData, wave, heap, files,
                   cmd, dwReturn, outCalls, ntimeouts>>
    /\ NoLog

\* lines 396-421 with a file found: the PLAY line, then the thread
PlayTrackStart ==
    /\ cpc = "sp_clear"
    /\ cmd.op = "Play"
    /\ GetTrackPath(cmd.arg).format # "UNKNOWN"
    /\ Cardinality(Created) < MaxOps
    /\ g_dwCurrentTrack' = cmd.arg
    /\ g_bStopRequested' = FALSE
    /\ g_hPlayThread' = NewThread
    /\ thr' = [thr EXCEPT ![NewThread] = [pc |-> "decode", track |-> cmd.arg]]
    /\ cpc' = "ready"
    /\ ret' = "OK"
    /\ UNCHANGED <<g_bOpen, g_dwNumTracks, g_dwTimeFormat, modeVars, g_hWinMM,
                   g_hWaveOut, g_waveHdr, g_pAudioData, wave, heap, files,
                   cmd, dwReturn, outCalls, ntimeouts>>
    /\ LogCommand(<<Line("PLAY", NewThread)>>)

(* ---------------------------------------------------------------------- *)
(* DriverProc: the commands.  A command is taken up only when the caller's *)
(* thread is between commands (cpc = "ready").                             *)
(* ---------------------------------------------------------------------- *)

\* the branches behind the g_bOpen test of line 490
GuardedOps == {"MciOpen", "MciClose", "Play", "Stop", "Pause", "Resume",
               "Seek", "Status", "Set", "GetDevCaps", "Info", "Unrecognized"}

\* a command that runs to its return in one step
Finish(c, r) ==
    /\ cmd' = c
    /\ ret' = r
    /\ cpc' = "ready"

\* OpenDriver that also rewinds to the first track
OpenDriver_Rewinds ==
    /\ cpc = "ready"
    /\ g_bOpen' = TRUE
    /\ g_dwNumTracks' = CountTracks
    /\ g_dwCurrentTrack' = FirstTrack
    /\ Finish(Issue("OpenDriver", 0), "OK")
    /\ outCalls' = <<>>
    /\ dwReturn' = 0
    /\ UNCHANGED <<g_dwTimeFormat, modeVars, playVars, envVars, ntimeouts>>
    /\ LogCommand(<<Line("OPEN", 0)>>)

\* OpenDriver without the recount of line 478
OpenDriver_KeepsCount ==
    /\ cpc = "ready"
    /\ g_bOpen' = TRUE
    /\ Finish(Issue("OpenDriver", 0), "OK")
    /\ outCalls' = <<>>
    /\ dwReturn' = 0
    /\ UNCHANGED <<g_dwCurrentTrack, g_dwNumTracks, g_dwTimeFormat, modeVars,
                   playVars, envVars, ntimeouts>>
    /\ LogCommand(<<Line("OPEN", 0)>>)

\* lines 476-481
OpenDriver ==
    /\ cpc = "ready"
    /\ g_bOpen' = TRUE
    /\ g_dwNumTracks' = CountTracks
    /\ Finish(Issue("OpenDriver", 0), "OK")
    /\ outCalls' = <<>>
    /\ UNCHANGED <<g_dwCurrentTrack, g_dwTimeFormat, modeVars, playVars,
                   envVars, ntimeouts>>
    /\ dwReturn' = 0
    /\ LogCommand(<<Line("OPEN", 0)>>)

\* lines 483-485: handled before the g_bOpen test
CloseDriver == SP_Begin(Issue("CloseDriver", 0))

\* lines 490-491
NotReady(op) ==
    /\ cpc = "ready"
    /\ ~g_bOpen
    /\ Finish(Issue(op, 0), "MCIERR_DEVICE_NOT_READY")
    /\ outCalls' = <<>>
    /\ UNCHANGED <<devVars, modeVars, playVars, envVars, ntimeouts>>
    /\ dwReturn' = 0
    /\ NoLog

\* lines 494-496
MciOpen ==
    /\ cpc = "ready"
    /\ g_bOpen
    /\ Finish(Issue("MciOpen", 0), "OK")
    /\ outCalls' = <<>>
    /\ UNCHANGED <<devVars, modeVars, playVars, envVars, ntimeouts>>
    /\ dwReturn' = 0
    /\ LogCommand(<<Line("MCI_OPEN", 0)>>)

\* lines 498-500
MciClose == g_bOpen /\ SP_Begin(Issue("MciClose", 0))

\* PlayFrom without the time-format test of line 509
PlayFrom_Raw(hasFrom, dwFrom) ==
    IF hasFrom THEN dwFrom ELSE g_dwCurrentTrack

\* lines 503-515 and 394: dwFrom is worked out, then PlayTrack starts with
\* StopPlayback.  A Play that would need more than MaxOps threads is not
\* offered.
PlayFrom(hasFrom, dwFrom) ==
    IF hasFrom
    THEN IF g_dwTimeFormat = MCI_FORMAT_TMSF THEN MCI_TMSF_TRACK(dwFrom)
         ELSE dwFrom
    ELSE g_dwCurrentTrack

Play(hasFrom, dwFrom) ==
    /\ g_bOpen
    /\ TrackExists(PlayFrom(hasFrom, dwFrom)) => Cardinality(Created) < MaxOps
    /\ SP_Begin(Issue("Play", PlayFrom(hasFrom, dwFrom)))

\* Stop without the test of line 490
Stop_Unguarded == SP_Begin(Issue("Stop", 0))

\* lines 519-521
Stop == g_bOpen /\ SP_Begin(Issue("Stop", 0))

\* lines 524-526 and PausePlayback
PausePlayback ==
    IF g_hWaveOut # NULL /\ g_bPlaying /\ ~g_bPaused
    THEN /\ wave' = IF WaveValid(g_hWaveOut)
                    THEN [wave EXCEPT ![g_hWaveOut].paused = TRUE] ELSE wave
         /\ outCalls' = <<"pause">>
         /\ g_bPaused' = TRUE
         /\ LogCommand(<<Line("PAUSE", 0)>>)
    ELSE /\ outCalls' = <<>>
         /\ UNCHANGED <<wave, g_bPaused>>
         /\ NoLog

Pause ==
    /\ cpc = "ready"
    /\ g_bOpen
    /\ PausePlayback
    /\ Finish(Issue("Pause", 0), "OK")
    /\ UNCHANGED <<devVars, g_bPlaying, playVars, thr, heap, files, ntimeouts>>
    /\ dwReturn' = 0

\* lines 528-530 and ResumePlayback
ResumePlayback ==
    IF g_hWaveOut # NULL /\ g_bPaused
    THEN /\ wave' = IF WaveValid(g_hWaveOut)
                    THEN [wave EXCEPT ![g_hWaveOut].paused = FALSE] ELSE wave
         /\ outCalls' = <<"resume">>
         /\ g_bPaused' = FALSE
         /\ LogCommand(<<Line("RESUME", 0)>>)
    ELSE /\ outCalls' = <<>>
         /\ UNCHANGED <<wave, g_bPaused>>
         /\ NoLog

Resume ==
    /\ cpc = "ready"
    /\ g_bOpen
    /\ ResumePlayback
    /\ Finish(Issue("Resume", 0), "OK")
    /\ UNCHANGED <<devVars, g_bPlaying, playVars, thr, heap, files, ntimeouts>>
    /\ dwReturn' = 0

\* Seek that also asks the playback thread to stop
Seek_Cancels(hasTo, dwTo) ==
    /\ cpc = "ready"
    /\ g_bOpen
    /\ g_dwCurrentTrack' =
         IF hasTo
         THEN IF g_dwTimeFormat = MCI_FORMAT_TMSF THEN MCI_TMSF_TRACK(dwTo)
              ELSE dwTo
         ELSE g_dwCurrentTrack
    /\ g_bStopRequested' = TRUE
    /\ Finish(Issue("Seek", dwTo), "OK")
    /\ outCalls' = <<>>
    /\ dwReturn' = 0
    /\ UNCHANGED <<g_bOpen, g_dwNumTracks, g_dwTimeFormat, modeVars, g_hWinMM,
                   g_hWaveOut, g_waveHdr, g_pAudioData, g_hPlayThread,
                   envVars, ntimeouts>>
    /\ LogCommand(IF hasTo THEN <<Line("SEEK", 0)>> ELSE <<>>)

\* lines 532-543
Seek(hasTo, dwTo) ==
    /\ cpc = "ready"
    /\ g_bOpen
    /\ g_dwCurrentTrack' =
         IF hasTo
         THEN IF g_dwTimeFormat = MCI_FORMAT_TMSF THEN MCI_TMSF_TRACK(dwTo)
              ELSE dwTo
         ELSE g_dwCurrentTrack
    /\ Finish(Issue("Seek", dwTo), "OK")
    /\ outCalls' = <<>>
    /\ UNCHANGED <<g_bOpen, g_dwNumTracks, g_dwTimeFormat, modeVars, playVars,
                   envVars, ntimeouts>>
    /\ dwReturn' = 0
    /\ LogCommand(IF hasTo THEN <<Line("SEEK", 0)>> ELSE <<>>)

\* StatusValue whose mode looks at g_bPlaying only
StatusValue_NoPause(item) ==
    CASE item = "NUMBER_OF_TRACKS" -> g_dwNumTracks
      [] item = "CURRENT_TRACK"    -> g_dwCurrentTrack
      [] item = "LENGTH"           -> TrackLength
      [] item = "MODE"             ->
            IF g_bPlaying THEN MCI_MODE_PLAY ELSE MCI_MODE_STOP
      [] item = "MEDIA_PRESENT"    -> C_TRUE
      [] item = "READY"            -> C_TRUE
      [] item = "POSITION"         -> MCI_MAKE_TMSF(g_dwCurrentTrack, 0, 0, 0)
      [] item = "TIME_FORMAT"      -> g_dwTimeFormat
      [] item = "TYPE_TRACK"       -> MCI_CDA_TRACK_AUDIO
      [] OTHER                     -> 0

\* StatusValue that answers the built-in count of line 56 for the number of
\* tracks
StatusValue_FixedCount(item) ==
    CASE item = "NUMBER_OF_TRACKS" -> DefaultTracks
      [] item = "CURRENT_TRACK"    -> g_dwCurrentTrack
      [] item = "LENGTH"           -> TrackLength
      [] item = "MODE"             ->
            IF g_bPlaying
            THEN (IF g_bPaused THEN MCI_MODE_PAUSE ELSE MCI_MODE_PLAY)
            ELSE MCI_MODE_STOP
      [] item = "MEDIA_PRESENT"    -> C_TRUE
      [] item = "READY"            -> C_TRUE
      [] item = "POSITION"         -> MCI_MAKE_TMSF(g_dwCurrentTrack, 0, 0, 0)
      [] item = "TIME_FORMAT"      -> g_dwTimeFormat
      [] item = "TYPE_TRACK"       -> MCI_CDA_TRACK_AUDIO
      [] OTHER                     -> 0

\* lines 545-587
StatusValue(item) ==
    CASE item = "NUMBER_OF_TRACKS" -> g_dwNumTracks
      [] item = "CURRENT_TRACK"    -> g_dwCurrentTrack
      [] item = "LENGTH"           -> TrackLength
      [] item = "MODE"             ->
            IF g_bPlaying
            THEN (IF g_bPaused THEN MCI_MODE_PAUSE ELSE MCI_MODE_PLAY)
            ELSE MCI_MODE_STOP
      [] item = "MEDIA_PRESENT"    -> C_TRUE
      [] item = "READY"            -> C_TRUE
      [] item = "POSITION"         -> MCI_MAKE_TMSF(g_dwCurrentTrack, 0, 0, 0)
      [] item = "TIME_FORMAT"      -> g_dwTimeFormat
      [] item = "TYPE_TRACK"       -> MCI_CDA_TRACK_AUDIO
      [] OTHER                     -> 0

\* Status that withdraws the playing indication once the header is done
Status_Rederives(hasParms, hasItem, item) ==
    /\ cpc = "ready"
    /\ g_bOpen
    /\ IF ~hasParms
       THEN /\ Finish(Issue("Status", 0), "MCIERR_NULL_PARAMETER_BLOCK")
            /\ dwReturn' = 0
       ELSE /\ Finish(Issue("Status", 0), "OK")
            /\ dwReturn' = IF hasItem THEN StatusValue(item) ELSE 0
    /\ g_bPlaying' = (g_bPlaying /\ "DONE" \notin g_waveHdr.dwFlags)
    /\ outCalls' = <<>>
    /\ UNCHANGED <<devVars, g_bPaused, playVars, envVars, ntimeouts>>
    /\ NoLog

\* lines 545-587: the function
Status(hasParms, hasItem, item) ==
    /\ cpc = "ready"
    /\ g_bOpen
    /\ IF ~hasParms
       THEN /\ Finish(Issue("Status", 0), "MCIERR_NULL_PARAMETER_BLOCK")
            /\ dwReturn' = 0
       ELSE /\ Finish(Issue("Status", 0), "OK")
            /\ dwReturn' = IF hasItem THEN StatusValue(item) ELSE 0
    /\ outCalls' = <<>>
    /\ UNCHANGED <<devVars, modeVars, playVars, envVars, ntimeouts>>
    /\ NoLog

\* lines 589-596
Set(hasParms, hasFormat, fmt) ==
    /\ cpc = "ready"
    /\ g_bOpen
    /\ g_dwTimeFormat' = IF hasParms /\ hasFormat THEN fmt ELSE g_dwTimeFormat
    /\ Finish(Issue("Set", 0), "OK")
    /\ outCalls' = <<>>
    /\ UNCHANGED <<g_bOpen, g_dwCurrentTrack, g_dwNumTracks, modeVars,
                   playVars, envVars, ntimeouts>>
    /\ dwReturn' = 0
    /\ NoLog

\* CapsValue of a drive that can eject
CapsValue_CanEject(item) ==
    CASE item \in {"CAN_PLAY", "HAS_AUDIO", "CAN_EJECT"} -> C_TRUE
      [] item \in {"CAN_RECORD", "HAS_VIDEO", "CAN_SAVE",
                   "USES_FILES", "COMPOUND_DEVICE"} -> C_FALSE
      [] item = "DEVICE_TYPE" -> MCI_DEVTYPE_CD_AUDIO
      [] OTHER -> 0

\* lines 598-625
CapsValue(item) ==
    CASE item \in {"CAN_PLAY", "HAS_AUDIO"} -> C_TRUE
      [] item \in {"CAN_RECORD", "HAS_VIDEO", "CAN_EJECT", "CAN_SAVE",
                   "USES_FILES", "COMPOUND_DEVICE"} -> C_FALSE
      [] item = "DEVICE_TYPE" -> MCI_DEVTYPE_CD_AUDIO
      [] OTHER -> 0

GetDevCaps(hasParms, hasItem, item) ==
    /\ cpc = "ready"
    /\ g_bOpen
    /\ IF ~hasParms
       THEN /\ Finish(Issue("GetDevCaps", 0), "MCIERR_NULL_PARAMETER_BLOCK")
            /\ dwReturn' = 0
       ELSE /\ Finish(Issue("GetDevCaps", 0), "OK")
            /\ dwReturn' = IF hasItem THEN CapsValue(item) ELSE 0
    /\ outCalls' = <<>>
    /\ UNCHANGED <<devVars, modeVars, playVars, envVars, ntimeouts>>
    /\ NoLog

\* lines 627-633: only the caller's string buffer is written
Info ==
    /\ cpc = "ready"
    /\ g_bOpen
    /\ Finish(Issue("Info", 0), "OK")
    /\ outCalls' = <<>>
    /\ UNCHANGED <<devVars, modeVars, playVars, envVars, ntimeouts>>
    /\ dwReturn' = 0
    /\ NoLog

\* an unrecognized command that is accepted
Unrecognized_Succeeds ==
    /\ cpc = "ready"
    /\ g_bOpen
    /\ Finish(Issue("Unrecognized", 0), "OK")
    /\ outCalls' = <<>>
    /\ UNCHANGED <<devVars, modeVars, playVars, envVars, ntimeouts>>
    /\ dwReturn' = 0
    /\ NoLog

\* lines 635-636
Unrecognized ==
    /\ cpc = "ready"
    /\ g_bOpen
    /\ Finish(Issue("Unrecognized", 0), "MCIERR_UNRECOGNIZED_COMMAND")
    /\ outCalls' = <<>>
    /\ UNCHANGED <<devVars, modeVars, playVars, envVars, ntimeouts>>
    /\ dwReturn' = 0
    /\ NoLog

(* ---------------------------------------------------------------------- *)
(* PlaybackThread.  The three failure exits (lines 334-339, 348-355 and    *)
(* 360-368) are the same statements entered at different points, and       *)
(* share the positions f_unprep, f_close, f_hnull, f_free, f_fnull.        *)
(* ---------------------------------------------------------------------- *)

Goto(t, pc) == thr' = [thr EXCEPT ![t].pc = pc]

\* line 131: InitWinMM logs once it has loaded the library, which it does
\* when no earlier call has (line 106)
WinMMLine(t) == IF g_hWinMM THEN <<>> ELSE <<Line("winmm", t)>>

\* lines 303-330.  InitWinMM and the decoder work on data no other thread
\* reads (g_hWinMM and the function pointers are written here only), so they
\* are fused with the first shared access, the store of line 319: the thread
\* is "in the decoder" until this step.
T_Decode(t) ==
    /\ thr[t].pc = "decode"
    /\ g_hWinMM' = TRUE
    /\ heap' = [heap EXCEPT ![t] = "alloc"]
    /\ g_pAudioData' = t
    /\ Goto(t, "open")
    /\ UNCHANGED <<devVars, modeVars, g_hWaveOut, g_waveHdr, g_hPlayThread,
                   g_bStopRequested, wave, files, cmdVars>>
    /\ LogCommand(<<Line("PlaybackThread", t)>> \o WinMMLine(t)
                     \o <<Line("Decoded", t), Line("PCM", t)>>)

\* lines 303-308: winmm.dll cannot be loaded
T_InitFail(t) ==
    /\ thr[t].pc = "decode"
    /\ ~g_hWinMM
    /\ Goto(t, "exited")
    /\ UNCHANGED <<devVars, modeVars, playVars, wave, heap, files, cmdVars>>
    /\ LogCommand(<<Line("PlaybackThread", t), Line("ERROR", t)>>)

\* lines 303-316: the decoder returns NULL
T_DecodeFail(t) ==
    /\ thr[t].pc = "decode"
    /\ g_hWinMM' = TRUE
    /\ Goto(t, "exited")
    /\ UNCHANGED <<devVars, modeVars, g_hWaveOut, g_waveHdr, g_pAudioData,
                   g_hPlayThread, g_bStopRequested, wave, heap, files,
                   cmdVars>>
    /\ LogCommand(<<Line("PlaybackThread", t)>> \o WinMMLine(t)
                     \o <<Line("ERROR", t)>>)

\* line 333
T_Open(t) ==
    /\ thr[t].pc = "open"
    /\ wave' = [wave EXCEPT ![t] = [NoWave EXCEPT !.st = "open"]]
    /\ g_hWaveOut' = t
    /\ Goto(t, "hdr")
    /\ UNCHANGED <<devVars, modeVars, g_hWinMM, g_waveHdr, g_pAudioData,
                   g_hPlayThread, g_bStopRequested, heap, files, cmdVars>>
    /\ NoLog

\* lines 334-336
T_OpenFail(t) ==
    /\ thr[t].pc = "open"
    /\ Goto(t, "f_free")
    /\ UNCHANGED <<devVars, modeVars, playVars, wave, heap, files, cmdVars>>
    /\ LogCommand(<<Line("ERROR", t)>>)

\* lines 343-345
T_Hdr(t) ==
    /\ thr[t].pc = "hdr"
    /\ g_waveHdr' = [lpData |-> g_pAudioData, dwFlags |-> {}]
    /\ Goto(t, "prepare")
    /\ UNCHANGED <<devVars, modeVars, g_hWinMM, g_hWaveOut, g_pAudioData,
                   g_hPlayThread, g_bStopRequested, wave, heap, files,
                   cmdVars>>
    /\ NoLog

\* line 347
T_Prepare(t) ==
    /\ thr[t].pc = "prepare"
    /\ WaveValid(g_hWaveOut)
    /\ g_waveHdr' = [g_waveHdr EXCEPT !.dwFlags = @ \cup {"PREPARED"}]
    /\ Goto(t, "write")
    /\ UNCHANGED <<devVars, modeVars, g_hWinMM, g_hWaveOut, g_pAudioData,
                   g_hPlayThread, g_bStopRequested, wave, heap, files,
                   cmdVars>>
    /\ NoLog

\* lines 348-349
T_PrepareFail(t) ==
    /\ thr[t].pc = "prepare"
    /\ Goto(t, "f_close")
    /\ UNCHANGED <<devVars, modeVars, playVars, wave, heap, files, cmdVars>>
    /\ LogCommand(<<Line("ERROR", t)>>)

\* line 359: the device takes the header's buffer
T_Write(t) ==
    /\ thr[t].pc = "write"
    /\ WaveValid(g_hWaveOut)
    /\ "PREPARED" \in g_waveHdr.dwFlags
    /\ "INQUEUE" \notin g_waveHdr.dwFlags
    /\ g_waveHdr.lpData # NULL
    /\ wave' = [wave EXCEPT ![g_hWaveOut].queued = g_waveHdr.lpData]
    /\ g_waveHdr' = [g_waveHdr EXCEPT
                        !.dwFlags = (@ \cup {"INQUEUE"}) \ {"DONE"}]
    /\ Goto(t, "playing")
    /\ UNCHANGED <<devVars, modeVars, g_hWinMM, g_hWaveOut, g_pAudioData,
                   g_hPlayThread, g_bStopRequested, heap, files, cmdVars>>
    /\ NoLog

\* lines 360-361
T_WriteFail(t) ==
    /\ thr[t].pc = "write"
    /\ Goto(t, "f_unprep")
    /\ UNCHANGED <<devVars, modeVars, playVars, wave, heap, files, cmdVars>>
    /\ LogCommand(<<Line("ERROR", t)>>)

\* line 362
T_FUnprepare(t) ==
    /\ thr[t].pc = "f_unprep"
    /\ g_waveHdr' = UnprepareHdr(g_hWaveOut)
    /\ Goto(t, "f_close")
    /\ UNCHANGED <<devVars, modeVars, g_hWinMM, g_hWaveOut, g_pAudioData,
                   g_hPlayThread, g_bStopRequested, wave, heap, files,
                   cmdVars>>
    /\ NoLog

\* lines 350, 363
T_FClose(t) ==
    /\ thr[t].pc = "f_close"
    /\ wave' = CloseWave(g_hWaveOut)
    /\ Goto(t, "f_hnull")
    /\ UNCHANGED <<devVars, modeVars, playVars, heap, files, cmdVars>>
    /\ NoLog

\* lines 351, 364
T_FHNull(t) ==
    /\ thr[t].pc = "f_hnull"
    /\ g_hWaveOut' = NULL
    /\ Goto(t, "f_free")
    /\ UNCHANGED <<devVars, modeVars, g_hWinMM, g_waveHdr, g_pAudioData,
                   g_hPlayThread, g_bStopRequested, wave, heap, files,
                   cmdVars>>
    /\ NoLog

\* lines 337, 353, 366
T_FFree(t) ==
    /\ thr[t].pc = "f_free"
    /\ heap' = Free(g_pAudioData)
    /\ Goto(t, "f_fnull")
    /\ UNCHANGED <<devVars, modeVars, playVars, wave, files, cmdVars>>
    /\ NoLog

\* lines 338-339, 354-355, 367-368
T_FFNull(t) ==
    /\ thr[t].pc = "f_fnull"
    /\ g_pAudioData' = NULL
    /\ Goto(t, "exited")
    /\ UNCHANGED <<devVars, modeVars, g_hWinMM, g_hWaveOut, g_waveHdr,
                   g_hPlayThread, g_bStopRequested, wave, heap, files,
                   cmdVars>>
    /\ NoLog

\* lines 370-372
T_Playing(t) ==
    /\ thr[t].pc = "playing"
    /\ g_bPlaying' = TRUE
    /\ Goto(t, "loop")
    /\ UNCHANGED <<devVars, g_bPaused, playVars, wave, heap, files, cmdVars>>
    /\ LogCommand(<<Line("PLAYING", t)>>)

\* lines 375, 383-384: the loop test sees the stop request
T_Cancelled(t) ==
    /\ thr[t].pc = "loop"
    /\ g_bStopRequested
    /\ Goto(t, "exited")
    /\ UNCHANGED <<devVars, modeVars, playVars, wave, heap, files, cmdVars>>
    /\ NoLog

\* T_Done that also withdraws the playing indication
T_Done_ClearsPlaying(t) ==
    /\ thr[t].pc = "loop"
    /\ ~g_bStopRequested
    /\ "DONE" \in g_waveHdr.dwFlags
    /\ g_bPlaying' = FALSE
    /\ Goto(t, "exited")
    /\ UNCHANGED <<devVars, g_bPaused, playVars, wave, heap, files, cmdVars>>
    /\ LogCommand(<<Line("PLAYBACK_DONE", t)>>)

\* lines 376-379, 383-384: the header is marked done.  While neither holds
\* the thread sleeps and tests again, which changes nothing.
T_Done(t) ==
    /\ thr[t].pc = "loop"
    /\ ~g_bStopRequested
    /\ "DONE" \in g_waveHdr.dwFlags
    /\ Goto(t, "exited")
    /\ UNCHANGED <<devVars, modeVars, playVars, wave, heap, files, cmdVars>>
    /\ LogCommand(<<Line("PLAYBACK_DONE", t)>>)

\* The output device finishes the buffer queued on an open, unpaused handle
\* and marks the header done.
DeviceDone(h) ==
    /\ WaveValid(h)
    /\ wave[h].queued # NULL
    /\ ~wave[h].paused
    /\ wave' = [wave EXCEPT ![h].queued = NULL]
    /\ g_waveHdr' = [g_waveHdr EXCEPT
                        !.dwFlags = (@ \ {"INQUEUE"}) \cup {"DONE"}]
    /\ UNCHANGED <<devVars, modeVars, g_hWinMM, g_hWaveOut, g_pAudioData,
                   g_hPlayThread, g_bStopRequested, thr, heap, files,
                   cmdVars>>
    /\ NoLog

(* ---------------------------------------------------------------------- *)
(* Specification                                                           *)
(* ---------------------------------------------------------------------- *)

\* The commands that reach the playback engine.  The other branches of
\* DriverProc (Seek, Status, Set, GetDevCaps, Info, the default) leave every
\* variable of the engine alone and run in one step.
Command ==
    \/ OpenDriver
    \/ CloseDriver
    \/ \E op \in GuardedOps : NotReady(op)
    \/ MciOpen
    \/ MciClose
    \/ \E hasFrom \in BOOLEAN, dwFrom \in TrackArgs : Play(hasFrom, dwFrom)
    \/ Stop
    \/ Pause
    \/ Resume

StopPlaybackStep ==
    \/ SP_WaitJoined
    \/ SP_WaitTimeout
    \/ SP_Reset
    \/ SP_Unprepare
    \/ SP_Close
    \/ SP_HNull
    \/ SP_Free
    \/ SP_FNull
    \/ SP_Zero
    \/ SP_Flags
    \/ StopReturn
    \/ CloseDriverReturn
    \/ PlayTrackNotFound
    \/ PlayTrackStart

PlaybackThread(t) ==
    \/ T_Decode(t)
    \/ T_InitFail(t)
    \/ T_DecodeFail(t)
    \/ T_Open(t)
    \/ T_OpenFail(t)
    \/ T_Hdr(t)
    \/ T_Prepare(t)
    \/ T_PrepareFail(t)
    \/ T_Write(t)
    \/ T_WriteFail(t)
    \/ T_FUnprepare(t)
    \/ T_FClose(t)
    \/ T_FHNull(t)
    \/ T_FFree(t)
    \/ T_FFNull(t)
    \/ T_Playing(t)
    \/ T_Cancelled(t)
    \/ T_Done(t)

Next ==
    \/ Command
    \/ StopPlaybackStep
    \/ \E t \in Threads : PlaybackThread(t)
    \/ \E h \in Threads : DeviceDone(h)

Spec == Init /\ [][Next]_vars

(* ---------------------------------------------------------------------- *)
(* The whole dispatcher: every branch of DriverProc, on top of the same   *)
(* engine, with the music directory changing underneath.  Threads are     *)
(* bounded by MaxDispOps here, and StopPlayback's wait is not left to      *)
(* expire.                                                                 *)
(* ---------------------------------------------------------------------- *)

\* directory contents the environment can switch to
DispFileSets == FileSets \cup { {<<3, 3>>} }

\* GetFileAttributesA (line 142) reads the directory as it is at the call:
\* files appear and disappear between commands and steps.
DirChange ==
    /\ files' \in DispFileSets \ {files}
    /\ UNCHANGED <<devVars, modeVars, playVars, thr, wave, heap, cmdVars>>
    /\ NoLog

\* The calls offered to a branch that takes a parameter block, a flag and an
\* item: every item with block and flag present, and one call each without
\* the flag and without the block, where the item is not read.
ItemCalls(items) ==
    {<<TRUE, TRUE, i>> : i \in items}
        \cup {<<hasParms, FALSE, CHOOSE i \in items : TRUE>> :
                  hasParms \in BOOLEAN}

\* lines 503-515, with the number of threads bounded by MaxDispOps
DispPlay(hasFrom, dwFrom) ==
    /\ TrackExists(PlayFrom(hasFrom, dwFrom))
          => Cardinality(Created) < MaxDispOps
    /\ Play(hasFrom, dwFrom)

DispCommand ==
    \/ OpenDriver
    \/ CloseDriver
    \/ \E op \in GuardedOps : NotReady(op)
    \/ MciOpen
    \/ MciClose
    \/ \E hasFrom \in BOOLEAN, dwFrom \in TrackArgs : DispPlay(hasFrom, dwFrom)
    \/ Stop
    \/ Pause
    \/ Resume
    \/ \E hasTo \in BOOLEAN, dwTo \in TrackArgs : Seek(hasTo, dwTo)
    \/ \E c \in ItemCalls(StatusItems) : Status(c[1], c[2], c[3])
    \/ \E c \in ItemCalls(TimeFormats) : Set(c[1], c[2], c[3])
    \/ \E c \in ItemCalls(CapsItems) : GetDevCaps(c[1], c[2], c[3])
    \/ Info
    \/ Unrecognized

\* StopPlayback as it runs when the wait of line 261 ends with the thread's
\* exit; the expired wait is explored in Spec.
DispStopPlaybackStep ==
    \/ SP_WaitJoined
    \/ SP_Reset
    \/ SP_Unprepare
    \/ SP_Close
    \/ SP_HNull
    \/ SP_Free
    \/ SP_FNull
    \/ SP_Zero
    \/ SP_Flags
    \/ StopReturn
    \/ CloseDriverReturn
    \/ PlayTrackNotFound
    \/ PlayTrackStart

DispNext ==
    \/ DispCommand
    \/ DispStopPlaybackStep
    \/ \E t \in Threads : PlaybackThread(t)
    \/ \E h \in Threads : DeviceDone(h)
    \/ DirChange

DispSpec == Init /\ [][DispNext]_vars

TypeOK ==
    /\ g_bOpen \in BOOLEAN /\ g_bPlaying \in BOOLEAN /\ g_bPaused \in BOOLEAN
    /\ g_hWaveOut \in {NULL} \cup Threads
    /\ g_pAudioData \in {NULL} \cup Threads
    /\ g_hPlayThread \in {NULL} \cup Threads
    /\ ntimeouts \in 0..MaxTimeouts
    /\ Cardinality(Created) <= MaxOps

(* ---------------------------------------------------------------------- *)
(* Properties                                                              *)
(* ---------------------------------------------------------------------- *)

\* C1: at every instant at most one playback thread is alive, also when the
\* wait in StopPlayback expired before the thread had exited.
C1_AtMostOneAlive == Cardinality(AliveThreads) <= 1

\* C2: when Play(3), issued while track 2 is playing, returns, exactly one
\* playback thread is alive and it is bound to track 3; the handle of the
\* track-2 thread is closed and no buffer is queued on any open handle.
C2_PlayReplaces ==
    [][(PlayTrackStart /\ cmd.arg = 3 /\ cmd.pmode = "PLAY"
            /\ thr[1].track = 2 /\ g_hPlayThread' = 2)
        => /\ AliveThreads' = {2}
           /\ thr'[2].track = 3
           /\ wave'[1].st = "closed"
           /\ \A h \in Threads : wave'[h].queued = NULL]_vars

\* C2: at no time are buffers queued on two open output handles.
QueuedHandles == {h \in Threads : WaveValid(h) /\ wave[h].queued # NULL}
C2_NoOverlap == Cardinality(QueuedHandles) <= 1

\* C3: when Stop returns the engine is Idle: playing and paused are false,
\* no output handle is open and no PCM buffer is bound.
C3_StopReturnsIdle == [][(StopReturn /\ cmd.op = "Stop") => Idle']_vars

\* C4: a buffer the output device holds (queued on an open handle) has not
\* been freed.
C4_NoUseAfterFree ==
    \A h \in Threads :
        (WaveValid(h) /\ wave[h].queued # NULL) => heap[wave[h].queued] = "alloc"

\* C5: paused is true only if playing is true, in every reachable state.
C5_PausedOnlyIfPlaying == g_bPaused => g_bPlaying

\* a Stop has begun while the engine was paused and has closed the handle
C5_Witness == g_bPaused /\ g_bPlaying /\ cpc = "sp_hnull" /\ AliveThreads # {}

\* C6: Pause issued while the mode is not "playing" (stopped, which includes
\* decoding, or paused) changes no state and calls nothing on the output;
\* issued while playing it sets paused and pauses the output handle, by one
\* call.
C6_Pause ==
    [][Pause =>
        IF Mode = "PLAY"
        THEN /\ g_bPaused' /\ g_bPlaying'
             /\ outCalls' = <<"pause">>
             /\ WaveValid(g_hWaveOut) /\ wave'[g_hWaveOut].paused
        ELSE /\ UNCHANGED <<devVars, modeVars, playVars, envVars>>
             /\ outCalls' = <<>>]_vars

\* C7: Resume issued while paused resumes the output handle by one call and
\* clears paused, leaving playing set; issued otherwise it changes no state
\* and calls nothing.
C7_Resume ==
    [][Resume =>
        IF g_bPaused
        THEN /\ ~g_bPaused' /\ g_bPlaying'
             /\ outCalls' = <<"resume">>
             /\ WaveValid(g_hWaveOut) /\ ~wave'[g_hWaveOut].paused
        ELSE /\ UNCHANGED <<devVars, modeVars, playVars, envVars>>
             /\ outCalls' = <<>>]_vars

\* C8: a Stop taken up with no active operation makes no call on the output
\* and changes nothing, and every Stop leaves no active operation behind, so
\* that a second Stop finds nothing to change.
C8_StopIdempotent ==
    [][(StopReturn /\ cmd.op = "Stop") =>
        /\ NoActiveOperation'
        /\ cmd.pidle => outCalls = <<>>]_vars

\* A command returns: the caller's thread comes back to, or passes through,
\* "ready" with a new command on record.
CommandReturns == cpc' = "ready" /\ (cpc # "ready" \/ cmd' # cmd)

\* C9 as stated: every command other than Open that is received while the
\* device is not open fails with MCIERR_DEVICE_NOT_READY.
C9_NotReadyAll ==
    [][(CommandReturns /\ ~g_bOpen /\ cmd'.op # "OpenDriver")
        => ret' = "MCIERR_DEVICE_NOT_READY"]_vars

\* C9 amended: every command other than the two driver-level messages
\* (MCI_OPEN_DRIVER, MCI_CLOSE_DRIVER) that is received while the device is
\* not open fails with MCIERR_DEVICE_NOT_READY and changes no state;
\* MCI_CLOSE_DRIVER is accepted while closed and returns success.
C9_NotReady ==
    [][(CommandReturns /\ ~g_bOpen /\ cmd'.op # "OpenDriver")
        => IF cmd'.op = "CloseDriver"
           THEN ret' = "OK" /\ ~g_bOpen'
           ELSE /\ ret' = "MCIERR_DEVICE_NOT_READY"
                /\ cmd'.op \in GuardedOps
                /\ UNCHANGED <<devVars, modeVars, playVars, envVars>>]_vars

\* a Play has been refused on the closed device while a thread of the
\* session before the close is still running
C9_Witness ==
    /\ cpc = "ready" /\ ~g_bOpen
    /\ cmd.op = "Play" /\ ret = "MCIERR_DEVICE_NOT_READY"
    /\ AliveThreads # {}

\* C10: when a Play whose track has no file returns, the engine is Idle and
\* no thread has been started.
C10_PlayNotFoundIdle ==
    [][PlayTrackNotFound => (Idle' /\ g_hPlayThread' = NULL /\ thr' = thr)]_vars

\* C11: a Play of a track for which no file exists returns a result other
\* than success.
C11_PlayFailureReported ==
    [][PlayTrackNotFound => ret' # "OK"]_vars

\* a PlaybackThread leaves through one of its failure exits
ThreadFails(t) == T_InitFail(t) \/ T_DecodeFail(t) \/ T_FFNull(t)

\* C12: when a PlaybackThread has left through a failure exit (winmm load,
\* decode, open, prepare or write failed), the buffer it decoded is not
\* allocated, the handle it opened is not open, and playing is false.
C12_FailureUnwound ==
    [][\A t \in Threads :
          ThreadFails(t) => /\ heap'[t] # "alloc"
                            /\ wave'[t].st # "open"
                            /\ ~g_bPlaying']_vars

\* C13: the step by which a PlaybackThread leaves on natural completion
\* changes neither playing nor paused nor the bound handle, buffer and
\* header; and once no thread is alive, playing, the handle and the buffer
\* keep their values through every step that is not part of a Stop, Play or
\* Close.
C13_CompletionKeepsState ==
    [][/\ \A t \in Threads :
            T_Done(t) => UNCHANGED <<modeVars, g_hWaveOut, g_pAudioData,
                                     g_waveHdr>>
       /\ (AliveThreads = {} /\ cpc = "ready" /\ cpc' = "ready")
            => UNCHANGED <<g_bPlaying, g_hWaveOut, g_pAudioData>>]_vars

\* the only thread has left on completion (no stop was requested since it
\* began to play), and a later Pause still found the device playing
C13_Witness ==
    /\ thr[1].pc = "exited" /\ Created = {1} /\ ntimeouts = 0
    /\ "DONE" \in g_waveHdr.dwFlags
    /\ g_bPlaying /\ g_bPaused
    /\ g_hWaveOut = 1 /\ g_pAudioData = 1 /\ heap[1] = "alloc"
    /\ cpc = "ready" /\ cmd.op = "Pause"

(* ---- properties of the dispatcher, checked under DispSpec ---- *)

\* the start track DriverProc hands to PlayTrack for a Play call
ResolvedFrom(hasFrom, dwFrom) ==
    IF ~hasFrom THEN g_dwCurrentTrack
    ELSE IF g_dwTimeFormat = MCI_FORMAT_TMSF THEN dwFrom % 256
    ELSE dwFrom

\* the step of PlayTrack after StopPlayback: the track is looked up and the
\* command returns
PlayTrackReturns == cmd.op = "Play" /\ cpc = "sp_clear" /\ cpc' = "ready"

\* a Seek call on the open device
SeekStep ==
    /\ cpc = "ready" /\ cmd'.op = "Seek"
    /\ \E hasTo \in BOOLEAN, dwTo \in TrackArgs : Seek(hasTo, dwTo)

\* a Status call on the open device, with parameter block and item
StatusStep(item) ==
    /\ cpc = "ready" /\ cmd'.op = "Status"
    /\ Status(TRUE, TRUE, item)

\* a Play call taken up on the open device
PlayStep(hasFrom, dwFrom) ==
    /\ cpc = "ready" /\ cmd'.op = "Play"
    /\ DispPlay(hasFrom, dwFrom)

\* an MCI_OPEN_DRIVER call
OpenStep == cpc = "ready" /\ cmd'.op = "OpenDriver" /\ OpenDriver

\* C14: g_dwCurrentTrack changes only in a Seek and in Play's step that
\* starts the thread; every other command and every
\* step of StopPlayback, of the playback thread and of the device leaves it
\* unchanged.
C14_CurrentTrackFrame ==
    [][g_dwCurrentTrack' # g_dwCurrentTrack
         => \/ SeekStep
            \/ (PlayTrackReturns /\ TrackExists(cmd.arg))]_vars

\* a Set has returned while a thread is alive and the current track, moved by
\* a Seek in the raw format, is no longer the thread's track
C14_Witness ==
    /\ cpc = "ready" /\ cmd.op = "Set"
    /\ g_dwCurrentTrack = 258
    /\ \E t \in AliveThreads : thr[t].track # g_dwCurrentTrack

\* C15 as stated: Play resolves its start track (the explicit from, its
\* track field under TMSF, else the current track) and, when it returns,
\* the current track is that resolved value.
C15_PlaySetsCurrent ==
    [][/\ \A hasFrom \in BOOLEAN, dwFrom \in TrackArgs :
            PlayStep(hasFrom, dwFrom)
               => cmd'.arg = ResolvedFrom(hasFrom, dwFrom)
       /\ PlayTrackReturns => g_dwCurrentTrack' = cmd.arg]_vars

\* C15 amended: Play resolves its start track as stated; a Play whose track
\* has a file sets the current track to the resolved value and starts the
\* thread on that track; a Play whose track has no file leaves the current
\* track unchanged and starts nothing.  A Seek with a target sets the current
\* track to the resolved target, which a following Play without from plays.
C15_PlayResolves ==
    [][/\ \A hasFrom \in BOOLEAN, dwFrom \in TrackArgs :
            PlayStep(hasFrom, dwFrom)
               => cmd'.arg = ResolvedFrom(hasFrom, dwFrom)
       /\ (PlayTrackReturns /\ TrackExists(cmd.arg))
            => /\ g_dwCurrentTrack' = cmd.arg
               /\ \E t \in Threads :
                     /\ thr[t].pc = "none"
                     /\ thr' = [thr EXCEPT
                                  ![t] = [pc |-> "decode", track |-> cmd.arg]]
       /\ (PlayTrackReturns /\ ~TrackExists(cmd.arg))
            => UNCHANGED <<g_dwCurrentTrack, thr>>
       /\ \A dwTo \in TrackArgs :
            (cpc = "ready" /\ cmd'.op = "Seek" /\ Seek(TRUE, dwTo))
               => g_dwCurrentTrack' = ResolvedFrom(TRUE, dwTo)]_vars

\* a raw-format Play from 258, for which there is no file, has returned and
\* the current track is still 3
C15_Witness ==
    /\ cpc = "ready" /\ cmd.op = "Play" /\ cmd.arg = 258
    /\ g_dwTimeFormat = MCI_FORMAT_MILLISECONDS
    /\ g_dwCurrentTrack = 3

\* C16: a Seek on the open device changes g_dwCurrentTrack at most: open
\* flag, track count, time format, playing, paused, thread, handle, header,
\* buffer and stop request are unchanged and nothing is sent to the output.
C16_SeekFrame ==
    [][SeekStep
         => /\ UNCHANGED <<g_bOpen, g_dwNumTracks, g_dwTimeFormat, modeVars,
                           playVars, envVars>>
            /\ outCalls' = <<>>
            /\ ret' = "OK"]_vars

\* a Seek has returned during playback: the thread plays on, on a track that
\* is no longer the current one
C16_Witness ==
    /\ cpc = "ready" /\ cmd.op = "Seek"
    /\ g_bPlaying /\ g_hPlayThread # NULL
    /\ thr[g_hPlayThread].pc = "loop"
    /\ thr[g_hPlayThread].track # g_dwCurrentTrack
    /\ wave[g_hWaveOut].queued # NULL

\* C17: Status(Mode) returns Paused if paused is set, otherwise Playing if
\* playing is set, otherwise Stopped.
C17_StatusMode ==
    [][StatusStep("MODE")
         => dwReturn' = IF g_bPaused THEN MCI_MODE_PAUSE
                        ELSE IF g_bPlaying THEN MCI_MODE_PLAY
                        ELSE MCI_MODE_STOP]_vars

\* C17 over the states of the engine, expired waits included: the value
\* Status(Mode) would return is the one the claim names.
C17_ModeInEveryState ==
    StatusValue("MODE") = IF g_bPaused THEN MCI_MODE_PAUSE
                          ELSE IF g_bPlaying THEN MCI_MODE_PLAY
                          ELSE MCI_MODE_STOP

\* Status(Mode) has answered Paused
C17_Witness ==
    /\ cpc = "ready" /\ cmd.op = "Status" /\ ret = "OK"
    /\ dwReturn = MCI_MODE_PAUSE /\ g_bPaused

\* C18: the value Status(Position) returns decodes to track =
\* g_dwCurrentTrack, minute 0, second 0, frame 0.
C18_PositionRoundTrip ==
    [][StatusStep("POSITION")
         => /\ MCI_TMSF_TRACK(dwReturn') = g_dwCurrentTrack
            /\ MCI_TMSF_MINUTE(dwReturn') = 0
            /\ MCI_TMSF_SECOND(dwReturn') = 0
            /\ MCI_TMSF_FRAME(dwReturn') = 0]_vars

\* what the claim says Status returns for an item
Projection(item) ==
    CASE item = "NUMBER_OF_TRACKS" -> g_dwNumTracks
      [] item = "CURRENT_TRACK"    -> g_dwCurrentTrack
      [] item = "LENGTH"           -> 180000
      [] item = "MEDIA_PRESENT"    -> 1
      [] item = "READY"            -> 1
      [] item = "TIME_FORMAT"      -> g_dwTimeFormat
      [] item = "TYPE_TRACK"       -> MCI_CDA_TRACK_AUDIO

\* C19: on the open device Status returns the track count, the current
\* track, 180000 for the length, true for media-present and ready, the time
\* format and track-type audio, and changes no variable of the device or of
\* playback.
C19_StatusProjection ==
    [][\A item \in {"NUMBER_OF_TRACKS", "CURRENT_TRACK", "LENGTH",
                    "MEDIA_PRESENT", "READY", "TIME_FORMAT", "TYPE_TRACK"} :
          StatusStep(item)
             => /\ dwReturn' = Projection(item)
                /\ ret' = "OK"
                /\ UNCHANGED <<devVars, modeVars, playVars, envVars>>]_vars

\* Status(Length) has answered during playback after the playing thread has
\* left on completion
C19_Witness ==
    /\ cpc = "ready" /\ cmd.op = "Status" /\ ret = "OK"
    /\ dwReturn = 180000
    /\ g_bPlaying /\ AliveThreads = {} /\ g_hWaveOut # NULL

\* C20: MCI_OPEN_DRIVER sets the open flag and stores CountTracks of the
\* directory as it is at that step; the stored count changes in no other
\* step, and Status(NumberOfTracks) returns the stored count.
C20_OpenCounts ==
    [][/\ OpenStep => g_bOpen' /\ g_dwNumTracks' = CountTracks
       /\ g_dwNumTracks' # g_dwNumTracks => OpenStep
       /\ StatusStep("NUMBER_OF_TRACKS")
            => dwReturn' = g_dwNumTracks]_vars

\* Status(NumberOfTracks) has answered 3, the count taken at the Open, after
\* the directory has changed to one that counts 2
C20_Witness ==
    /\ cpc = "ready" /\ cmd.op = "Status" /\ ret = "OK"
    /\ dwReturn = 3 /\ g_dwNumTracks = 3 /\ CountTracks = 2
    /\ g_dwCurrentTrack = 4 /\ g_dwTimeFormat = MCI_FORMAT_TMSF

\* a Close has returned: StopPlayback's last step for MCI_CLOSE_DRIVER
\* (line 486) or for MCI_CLOSE (line 500)
CloseReturns ==
    /\ cpc = "sp_clear" /\ cpc' = "ready"
    /\ cmd.op \in {"CloseDriver", "MciClose"}

\* C21: when either close message returns, g_bPlaying, g_bPaused and g_bOpen
\* are all false, and the command that follows a close, unless it is
\* MCI_OPEN_DRIVER, returns MCIERR_DEVICE_NOT_READY.
C21_CloseClosesDevice ==
    [][/\ CloseReturns => ~g_bPlaying' /\ ~g_bPaused' /\ ~g_bOpen'
       /\ (/\ cpc = "ready" /\ cpc' = "ready"
           /\ cmd.op \in {"CloseDriver", "MciClose"}
           /\ cmd' # cmd /\ cmd'.op # "OpenDriver")
            => ret' = "MCIERR_DEVICE_NOT_READY"]_vars

\* C22: the MCI_OPEN_DRIVER that follows a Close leaves the device as it is
\* when first opened: current track 2, time format TMSF, not playing, not
\* paused.
C22_ReopenIsFresh ==
    [][(OpenStep /\ cmd.op = "CloseDriver")
         => /\ g_dwCurrentTrack' = FirstTrack
            /\ g_dwTimeFormat' = MCI_FORMAT_TMSF
            /\ ~g_bPlaying' /\ ~g_bPaused']_vars

\* a command outside the switch of lines 493-637, on the open device
UnrecognizedStep ==
    /\ cpc = "ready" /\ cmd'.op = "Unrecognized"
    /\ Unrecognized

\* C28: on the open device a command outside the recognized set returns
\* MCIERR_UNRECOGNIZED_COMMAND and changes no variable of the device or of
\* playback.
C28_UnrecognizedFails ==
    [][UnrecognizedStep
         => /\ ret' = "MCIERR_UNRECOGNIZED_COMMAND"
            /\ UNCHANGED <<devVars, modeVars, playVars, envVars>>]_vars

\* an unrecognized command has been refused while a track is playing, paused
C28_Witness ==
    /\ cpc = "ready" /\ cmd.op = "Unrecognized"
    /\ ret = "MCIERR_UNRECOGNIZED_COMMAND"
    /\ g_bPlaying /\ g_bPaused /\ g_hWaveOut # NULL

\* an MCI_GETDEVCAPS call on the open device, with parameter block and item
GetDevCapsStep(item) ==
    /\ cpc = "ready" /\ cmd'.op = "GetDevCaps"
    /\ GetDevCaps(TRUE, TRUE, item)

\* what the claim says GetCapabilities answers for an item
CapsAnswer(item) ==
    CASE item = "CAN_PLAY"        -> 1
      [] item = "HAS_AUDIO"       -> 1
      [] item = "CAN_RECORD"      -> 0
      [] item = "HAS_VIDEO"       -> 0
      [] item = "CAN_EJECT"       -> 0
      [] item = "CAN_SAVE"        -> 0
      [] item = "USES_FILES"      -> 0
      [] item = "COMPOUND_DEVICE" -> 0
      [] item = "DEVICE_TYPE"     -> MCI_DEVTYPE_CD_AUDIO

\* C29: MCI_GETDEVCAPS answers true for can-play and has-audio, false for
\* can-record, has-video, can-eject, can-save, uses-files and compound
\* device, and CD audio for the device type, in every state of the open
\* device, and changes no variable of the device or of playback.
C29_CapsFixed ==
    [][(cpc = "ready" /\ cmd'.op = "GetDevCaps")
         => \A item \in CapsItems \ {"other"} :
               GetDevCapsStep(item)
                  => /\ dwReturn' = CapsAnswer(item)
                     /\ ret' = "OK"
                     /\ UNCHANGED <<devVars, modeVars, playVars,
                                    envVars>>]_vars

\* the device type has been answered while a track is playing under the raw
\* time format
C29_Witness ==
    /\ cpc = "ready" /\ cmd.op = "GetDevCaps" /\ ret = "OK"
    /\ dwReturn = MCI_DEVTYPE_CD_AUDIO
    /\ g_bPlaying /\ g_dwTimeFormat # MCI_FORMAT_TMSF

(* ---------------------------------------------------------------------- *)
(* DriverProc on the arguments it does not validate.  dwTo of MCI_SEEK     *)
(* (lines 535-541) and dwTimeFormat of MCI_SET (line 593) are stored as    *)
(* received, so the calls are offered with track arguments below the       *)
(* first audio track and with a third time format.  Nothing is played:     *)
(* StopPlayback finds no thread, no device and no buffer.                  *)
(* ---------------------------------------------------------------------- *)

\* a time format of mmsystem.h that is neither TMSF nor milliseconds
MCI_FORMAT_MSF == 2

DevTimeFormats == TimeFormats \cup {MCI_FORMAT_MSF}

\* dwTo: track 1, tracks 2 and 3, and 256 (track byte 0 under TMSF)
DevSeekArgs == {1, 2, 3, 256}

DevCommand ==
    \/ OpenDriver
    \/ CloseDriver
    \/ \E op \in GuardedOps : NotReady(op)
    \/ MciOpen
    \/ MciClose
    \/ Stop
    \/ Pause
    \/ Resume
    \/ \E hasTo \in BOOLEAN, dwTo \in DevSeekArgs : Seek(hasTo, dwTo)
    \/ \E c \in ItemCalls(StatusItems) : Status(c[1], c[2], c[3])
    \/ \E c \in ItemCalls(DevTimeFormats) : Set(c[1], c[2], c[3])
    \/ \E c \in ItemCalls(CapsItems) : GetDevCaps(c[1], c[2], c[3])
    \/ Info
    \/ Unrecognized

\* StopPlayback with nothing playing: lines 257-259, 262-264 skipped at line
\* 261, 267 and 273 skipped, 278-282
DevStopPlaybackStep ==
    \/ SP_Reset
    \/ SP_Free
    \/ SP_Zero
    \/ SP_Flags
    \/ StopReturn
    \/ CloseDriverReturn

DevNext ==
    \/ DevCommand
    \/ DevStopPlaybackStep

DevSpec == Init /\ [][DevNext]_vars

\* C23: g_dwCurrentTrack is at least 2 in every reachable state.
C23_TrackAtLeastTwo == g_dwCurrentTrack >= FirstTrack

\* an MCI_SET call on the open device that carries a time format
SetStep(fmt) ==
    /\ cpc = "ready" /\ cmd'.op = "Set"
    /\ Set(TRUE, TRUE, fmt)

\* C24: an MCI_SET that carries a time format stores that format, and
\* g_dwTimeFormat is MCI_FORMAT_TMSF or the raw format after every step.
C24_TimeFormatInEnum ==
    [][/\ \A fmt \in DevTimeFormats : SetStep(fmt) => g_dwTimeFormat' = fmt
       /\ g_dwTimeFormat' \in TimeFormats]_vars

(* ---------------------------------------------------------------------- *)
(* The track resolver over the directories it can meet: GetTrackPath,      *)
(* TrackExists and CountTracks are functions of the files present, so the  *)
(* directory is drawn at the start and the functions are applied to it.    *)
(* ---------------------------------------------------------------------- *)

\* extension indices of files: the five of g_extensions and one more for a
\* track file whose extension the table does not hold
ResExts == 1 .. (Len(g_extensions) + 1)

\* every combination of files for tracks 2 and 3
ResolveFileSets == SUBSET ({2, 3} \X ResExts)

\* every set of tracks within 2..7 as .wav files, and directories at the
\* end of the range CountTracks scans
CountFileSets ==
    {ts \X {1} : ts \in SUBSET (2 .. 7)}
        \cup { {<<99, 1>>}, {<<98, 1>>, <<99, 1>>}, {<<100, 1>>},
               {<<99, 1>>, <<100, 1>>}, {<<2, 1>>, <<100, 1>>},
               (FirstTrack .. LastTrack) \X {1},
               (FirstTrack .. (LastTrack + 1)) \X {1} }

ResFileSets == ResolveFileSets \cup CountFileSets

\* track numbers GetTrackPath is called with
ResTracks == {2, 3, 4}

ResInit ==
    /\ InitStatics
    /\ files \in ResFileSets
    /\ logOpens = FALSE

\* a call of GetTrackPath (lines 137-149): the format it returns and the
\* path it leaves in the caller's buffer
ResolveCall(track) ==
    /\ cpc = "ready"
    /\ Finish(Issue("GetTrackPath", track), GetTrackPath(track))
    /\ outCalls' = <<>>
    /\ dwReturn' = 0
    /\ UNCHANGED <<devVars, modeVars, playVars, envVars, ntimeouts>>
    /\ NoLog

ResNext ==
    \/ \E track \in ResTracks : ResolveCall(track)
    \/ OpenDriver
    \/ \E c \in ItemCalls({"NUMBER_OF_TRACKS"}) : Status(c[1], c[2], c[3])

ResolverSpec == ResInit /\ [][ResNext]_vars

\* a GetTrackPath call for a track
ResolveStep(track) ==
    /\ cpc = "ready" /\ cmd'.op = "GetTrackPath"
    /\ ResolveCall(track)

\* the formats in the priority order of the claim
PriorityOrder == <<"WAV", "FLAC", "MP3", "OGG", "OPUS">>

\* the positions in that order at which a file of the track exists
PresentFormats(track) ==
    {i \in 1 .. Len(PriorityOrder) : <<track, i>> \in files}

Lowest(S) == CHOOSE i \in S : \A j \in S : i <= j

\* C25: GetTrackPath returns the format of the first file that exists in the
\* order wav, flac, mp3, ogg, opus, whatever other formats of the track
\* exist, and changes no variable of the driver and no file.
C25_FirstFormatWins ==
    [][\A track \in ResTracks :
          ResolveStep(track)
             => /\ PresentFormats(track) # {}
                   => ret'.format = PriorityOrder[Lowest(PresentFormats(track))]
                /\ UNCHANGED <<devVars, modeVars, playVars, envVars>>]_vars

\* GetTrackPath has answered FLAC for a track that has flac, ogg and opus
\* files and no wav file
C25_Witness ==
    /\ cpc = "ready" /\ cmd.op = "GetTrackPath"
    /\ ret.format = "FLAC"
    /\ PresentFormats(cmd.arg) = {2, 4, 5}

\* C26: GetTrackPath returns UNKNOWN exactly when no file of the track exists
\* with one of the five extensions, the path is then empty, and TrackExists
\* is true exactly when the format returned is not UNKNOWN.
C26_UnknownIffNoFile ==
    [][\A track \in ResTracks :
          ResolveStep(track)
             => /\ ret'.format = "UNKNOWN" <=> PresentFormats(track) = {}
                /\ ret'.format = "UNKNOWN" => ret'.path = <<>>
                /\ ret'.format # "UNKNOWN" => ret'.path # <<>>
                /\ TrackExists(track) <=> ret'.format # "UNKNOWN"]_vars

\* GetTrackPath has answered UNKNOWN with an empty path for a track whose
\* only file has an extension outside the table
C26_Witness ==
    /\ cpc = "ready" /\ cmd.op = "GetTrackPath"
    /\ ret.format = "UNKNOWN" /\ ret.path = <<>>
    /\ <<cmd.arg, Len(g_extensions) + 1>> \in files

\* the tracks of 2..99 that exist in some supported format
Existing ==
    {n \in FirstTrack .. LastTrack : PresentFormats(n) # {}}

\* 18 when no track exists, otherwise 1 + the length of the run of
\* consecutive existing tracks that starts at the lowest existing track
RunCount ==
    IF Existing = {} THEN 18
    ELSE LET f == Lowest(Existing)
             lens == {k \in 1 .. Cardinality(Existing) :
                         \A j \in 0 .. (k - 1) : (f + j) \in Existing}
         IN 1 + (CHOOSE k \in lens : \A m \in lens : m <= k)

\* C27: CountTracks, as MCI_OPEN_DRIVER stores it, is 18 when no track of
\* 2..99 exists and otherwise 1 + the length of the first run of consecutive
\* existing tracks: a gap before the first existing track does not end the
\* scan, and tracks after the gap that follows the run are not counted.
C27_CountTracks ==
    [][OpenStep => g_dwNumTracks' = RunCount]_vars

\* MCI_OPEN_DRIVER has counted 3 in a directory that holds tracks 4, 5 and 7
C27_Witness ==
    /\ cpc = "ready" /\ cmd.op = "OpenDriver" /\ g_bOpen
    /\ Existing = {4, 5, 7}
    /\ g_dwNumTracks = 3

\* C30 as stated: Status(NumberOfTracks) returns 18.
C30_AlwaysEighteen ==
    [][StatusStep("NUMBER_OF_TRACKS") => dwReturn' = 18]_vars

\* C30: Status(NumberOfTracks) returns 18 when no track of 2..99 exists in
\* the directory, and otherwise the count of the existing tracks, 1 + the
\* length of their first run.
C30_EighteenWhenNoTracks ==
    [][StatusStep("NUMBER_OF_TRACKS")
         => /\ Existing = {} => dwReturn' = 18
            /\ Existing # {} => dwReturn' = RunCount]_vars

\* Status(NumberOfTracks) has answered 18 on the open device in a directory
\* that holds files and no track of 2..99
C30_Witness ==
    /\ cpc = "ready" /\ cmd.op = "Status" /\ g_bOpen
    /\ dwReturn = 18
    /\ files # {} /\ Existing = {}

\* the last command is a Stop or a close that has run StopPlayback and
\* returned, and the caller has issued no command since
StoppedSince ==
    /\ cpc = "ready" /\ ret = "OK"
    /\ cmd.op \in {"Stop", "MciClose", "CloseDriver"}

\* C33: between the return of Stop or Close and the next command, no step
\* sets g_bPlaying, opens an output handle, binds a buffer to the header or
\* queues a buffer on the device.
C33_QuietAfterStop ==
    [][(StoppedSince /\ cpc' = "ready" /\ cmd' = cmd)
         => /\ g_bPlaying' => g_bPlaying
            /\ OpenHandles' \subseteq OpenHandles
            /\ g_waveHdr'.lpData # NULL => g_waveHdr.lpData # NULL
            /\ QueuedHandles' \subseteq QueuedHandles]_vars

\* C34: when g_bPlaying is set between commands, g_hWaveOut is an open
\* handle and the header has a buffer bound.
C34_PlayingHoldsOutput ==
    (cpc = "ready" /\ g_bPlaying)
        => WaveValid(g_hWaveOut) /\ g_waveHdr.lpData # NULL

\* a step that calls waveOutClose: line 271 of StopPlayback, lines 350 and
\* 363 of the thread
ClosesHandle ==
    \/ cpc = "sp_close" /\ cpc' = "sp_hnull"
    \/ \E t \in Threads : thr[t].pc = "f_close" /\ thr'[t].pc = "f_hnull"

\* C35: no buffer is freed twice, and waveOutClose is not called on a handle
\* that is already closed.
C35_ReleasedOnce ==
    [][/\ \A b \in Threads : heap'[b] # "dfree"
       /\ ClosesHandle
            => g_hWaveOut = NULL \/ wave[g_hWaveOut].st # "closed"]_vars

\* C36: Pause and Resume call the output only on an open handle.
C36_RelayToOpenHandle ==
    [][((Pause \/ Resume) /\ outCalls' # <<>>) => WaveValid(g_hWaveOut)]_vars

(* ---------------------------------------------------------------------- *)
(* The engine under fair scheduling.  The caller's thread inside           *)
(* StopPlayback, each playback thread and the output device keep running:  *)
(* a step of theirs that stays possible is taken.  Nothing obliges the     *)
(* application to send another command.  One thread is created, and the    *)
(* wait of line 261 may expire.                                            *)
(* ---------------------------------------------------------------------- *)

FairCommand ==
    \/ OpenDriver
    \/ CloseDriver
    \/ \E hasFrom \in BOOLEAN, dwFrom \in TrackArgs : DispPlay(hasFrom, dwFrom)
    \/ Stop

FairNext ==
    \/ FairCommand
    \/ StopPlaybackStep
    \/ \E t \in Threads : PlaybackThread(t)
    \/ \E h \in Threads : DeviceDone(h)

FairSpec ==
    /\ Init
    /\ [][FairNext]_vars
    /\ WF_vars(StopPlaybackStep)
    /\ \A t \in Threads : WF_vars(PlaybackThread(t))
    /\ \A h \in Threads : WF_vars(DeviceDone(h))

\* C32: a playback thread that is running when the stop request is raised or
\* when the header is marked done eventually exits.
C32_ThreadExits ==
    \A t \in Threads :
        (Alive(t) /\ (g_bStopRequested \/ "DONE" \in g_waveHdr.dwFlags))
            ~> ~Alive(t)

(* ---------------------------------------------------------------------- *)
(* DriverProc called without a parameter block (lParam2 = NULL).           *)
(* MCI_STATUS and MCI_GETDEVCAPS test the pointer (lines 548 and 601),     *)
(* MCI_SET and MCI_INFO skip their work (lines 592 and 628).  MCI_PLAY     *)
(* with MCI_FROM reads parms->dwFrom (lines 508-512) and MCI_SEEK with     *)
(* MCI_TO reads parms->dwTo (lines 534-539) through the pointer as it is:  *)
(* the read of address 0 is an access violation, and the driver, which     *)
(* installs no handler, does not return.                                   *)
(* ---------------------------------------------------------------------- *)

\* the call ends in the access violation: nothing was written before the
\* read, and the caller's thread does not come back to "ready"
NullBlockRead(op) ==
    /\ cpc = "ready"
    /\ g_bOpen
    /\ cmd' = Issue(op, 0)
    /\ ret' = "ACCESS_VIOLATION"
    /\ cpc' = "crashed"
    /\ outCalls' = <<>>
    /\ dwReturn' = 0
    /\ UNCHANGED <<devVars, modeVars, playVars, envVars, ntimeouts>>
    /\ NoLog

\* lines 507-512 with MCI_FROM set and lParam2 = NULL
PlayNoBlock == NullBlockRead("Play")

\* lines 533-539 with MCI_TO set and lParam2 = NULL
SeekNoBlock == NullBlockRead("Seek")

BlockNext ==
    \/ DevCommand
    \/ DevStopPlaybackStep
    \/ PlayNoBlock
    \/ SeekNoBlock

BlockSpec == Init /\ [][BlockNext]_vars

\* a call on the open device that needs its parameter block and has none
NoBlockCall ==
    /\ cpc = "ready"
    /\ cmd'.op \in {"Status", "GetDevCaps", "Play", "Seek"}
    /\ \/ \E item \in StatusItems : Status(FALSE, FALSE, item)
       \/ \E item \in CapsItems : GetDevCaps(FALSE, FALSE, item)
       \/ PlayNoBlock
       \/ SeekNoBlock

\* C37: Status, GetCapabilities, Play with the from flag and Seek with the to
\* flag, called without a parameter block, return
\* MCIERR_NULL_PARAMETER_BLOCK and change no variable of the device or of
\* playback.
C37_NoBlockFails ==
    [][NoBlockCall
         => /\ cpc' = "ready"
            /\ ret' = "MCIERR_NULL_PARAMETER_BLOCK"
            /\ UNCHANGED <<devVars, modeVars, playVars, envVars>>]_vars

\* C40: g_dwNumTracks is within 2..99 in every state: 18 at the start and
\* after an MCI_OPEN_DRIVER that finds no track, otherwise 1 + a run length
\* within 1..98; it changes in no step other than MCI_OPEN_DRIVER.
C40_TrackCountRange ==
    /\ g_dwNumTracks = 18
    /\ [][/\ g_dwNumTracks' \in 2 .. 99
          /\ OpenStep
               => IF Existing = {} THEN g_dwNumTracks' = 18
                  ELSE (g_dwNumTracks' - 1) \in 1 .. 98
          /\ g_dwNumTracks' # g_dwNumTracks => OpenStep]_vars

\* MCI_OPEN_DRIVER has counted 99 in a directory that holds every track of
\* 2..99
C40_Witness ==
    /\ cpc = "ready" /\ cmd.op = "OpenDriver" /\ g_bOpen
    /\ Cardinality(Existing) = 98
    /\ g_dwNumTracks = 99

(* ---------------------------------------------------------------------- *)
(* The driver with a log file that opens: the commands that log, on top   *)
(* of the playback engine of Spec.  A command is offered while the        *)
(* caller's thread has logged fewer than MaxLogCmds command lines.        *)
(* ---------------------------------------------------------------------- *)

MaxLogCmds == 4

\* dwFrom / dwTo values offered here: a track with a file and one without
LogTrackArgs == {2, 4}

\* the first words of the lines DriverProc, PlayTrack, PausePlayback and
\* ResumePlayback write for a command (lines 397, 430, 440, 479-541)
CommandTexts == {"OPEN", "CLOSE", "MCI_OPEN", "MCI_CLOSE", "PLAY", "STOP",
                 "PAUSE", "RESUME", "SEEK"}

CommandLines == {i \in DOMAIN log : log[i].text \in CommandTexts}

LogInit ==
    /\ InitStatics
    /\ files \in FileSets
    /\ logOpens = TRUE

LogCommands ==
    /\ Cardinality(CommandLines) < MaxLogCmds
    /\ \/ OpenDriver
       \/ CloseDriver
       \/ MciOpen
       \/ MciClose
       \/ \E hasFrom \in BOOLEAN, dwFrom \in LogTrackArgs :
              Play(hasFrom, dwFrom)
       \/ Stop
       \/ Pause
       \/ Resume
       \/ \E hasTo \in BOOLEAN, dwTo \in LogTrackArgs : Seek(hasTo, dwTo)

LogNext ==
    \/ LogCommands
    \/ StopPlaybackStep
    \/ \E t \in Threads : PlaybackThread(t)
    \/ \E h \in Threads : DeviceDone(h)

LogSpec == LogInit /\ [][LogNext]_vars

\* the step appends a line that starts with text, after the lines there were
Appended(text) ==
    /\ Len(log') > Len(log)
    /\ SubSeq(log', 1, Len(log)) = log
    /\ log'[Len(log) + 1].text = text

\* the step at which a command of the open device writes its line, if it
\* writes one: the command itself when it runs in one step, the entry into
\* StopPlayback for Close and Stop, the return of PlayTrack for Play
LogsAt(op) ==
    IF op = "Play" THEN PlayTrackReturns
    ELSE /\ cpc = "ready" /\ g_bOpen /\ cmd'.op = op
         /\ CASE op = "OpenDriver" -> OpenDriver
              [] op = "MciOpen" -> MciOpen
              [] op = "CloseDriver" -> CloseDriver
              [] op = "MciClose" -> MciClose
              [] op = "Stop" -> Stop
              [] op = "Pause" -> Pause
              [] op = "Resume" -> Resume
              [] op = "Seek" -> \E hasTo \in BOOLEAN, dwTo \in LogTrackArgs :
                                   Seek(hasTo, dwTo)

\* C31: each Open, Close, Play, Stop, Pause, Resume and Seek command accepted
\* while the device is open appends an event line for that command to the
\* event log, whether or not the command changed any state.
C31_EveryCommandLogs ==
    [][/\ LogsAt("OpenDriver") => Appended("OPEN")
       /\ LogsAt("MciOpen") => Appended("MCI_OPEN")
       /\ LogsAt("CloseDriver") => Appended("CLOSE")
       /\ LogsAt("MciClose") => Appended("MCI_CLOSE")
       /\ LogsAt("Play") => Appended("PLAY")
       /\ LogsAt("Stop") => Appended("STOP")
       /\ LogsAt("Pause") => Appended("PAUSE")
       /\ LogsAt("Resume") => Appended("RESUME")
       /\ LogsAt("Seek") => Appended("SEEK")]_vars

\* C31, as the code has it: Open, Close, Play and Stop append their line
\* whenever the device is open; Pause and Resume append theirs exactly when
\* they change the paused flag, and Seek exactly when it is given a target
\* (MCI_TO); a command that appends no line leaves the log as it was.
C31_CommandLogs ==
    [][/\ LogsAt("OpenDriver") => Appended("OPEN")
       /\ LogsAt("MciOpen") => Appended("MCI_OPEN")
       /\ LogsAt("CloseDriver") => Appended("CLOSE")
       /\ LogsAt("MciClose") => Appended("MCI_CLOSE")
       /\ LogsAt("Play") => Appended("PLAY")
       /\ LogsAt("Stop") => Appended("STOP")
       /\ LogsAt("Pause")
            => IF g_bPaused' # g_bPaused THEN Appended("PAUSE")
               ELSE log' = log
       /\ LogsAt("Resume")
            => IF g_bPaused' # g_bPaused THEN Appended("RESUME")
               ELSE log' = log
       /\ \A hasTo \in BOOLEAN, dwTo \in LogTrackArgs :
            (cpc = "ready" /\ cmd'.op = "Seek" /\ Seek(hasTo, dwTo))
                => IF hasTo THEN Appended("SEEK") ELSE log' = log]_vars

\* a Resume has returned with its line the last of the log, after the PLAY
\* line of a Play and the PAUSE line of a Pause
C31_Witness ==
    /\ cpc = "ready" /\ cmd.op = "Resume" /\ g_bOpen
    /\ log # <<>> /\ log[Len(log)].text = "RESUME"
    /\ \E i, j \in DOMAIN log :
          i < j /\ log[i].text = "PLAY" /\ log[j].text = "PAUSE"

\* the positions in the log of the lines of operation t that start with text
OpLines(t, text) ==
    {i \in DOMAIN log : log[i].op = t /\ log[i].text = text}

\* every line of operation t that starts with text comes after a line of
\* the same operation that starts with before
Follows(t, text, before) ==
    \A i \in OpLines(t, text) : \E j \in OpLines(t, before) : j < i

\* C38: in the event log the lines of one playback operation appear in
\* order: its PLAY line precedes its PlaybackThread line, which precedes its
\* PLAYING line, which precedes its PLAYBACK_DONE line; PLAYING is never
\* logged for an operation whose decode or output setup failed (one with an
\* ERROR line), and PLAYBACK_DONE never without a preceding PLAYING of the
\* same operation.
C38_LogOrder ==
    \A t \in Threads :
        /\ Follows(t, "PlaybackThread", "PLAY")
        /\ Follows(t, "PLAYING", "PlaybackThread")
        /\ Follows(t, "PLAYBACK_DONE", "PLAYING")
        /\ OpLines(t, "ERROR") # {} => OpLines(t, "PLAYING") = {}
        /\ \A text \in {"PLAY", "PlaybackThread", "PLAYING", "PLAYBACK_DONE"} :
              Cardinality(OpLines(t, text)) <= 1

\* one operation has logged its four lines and played to the end, and a
\* second one, started after it, has failed in its setup
C38_Witness ==
    /\ OpLines(1, "PLAYBACK_DONE") # {}
    /\ OpLines(1, "PLAYING") # {}
    /\ OpLines(2, "PLAY") # {}
    /\ OpLines(2, "PlaybackThread") # {}
    /\ OpLines(2, "ERROR") # {}
    /\ thr[1].pc = "exited" /\ thr[2].pc = "exited"

(* ---------------------------------------------------------------------- *)
(* The log-only variant of the driver (src/unnamed/part_001): the same    *)
(* statics g_bOpen .. g_bPaused and the same log, no playback thread and  *)
(* no output device.  A command is offered while the log holds fewer than *)
(* MaxStubCmds lines.                                                     *)
(* ---------------------------------------------------------------------- *)

MaxStubCmds == 5

\* the variables of the playback engine, which this variant does not have
StubKeep == UNCHANGED <<playVars, envVars, outCalls, ntimeouts>>

\* part_001 lines 15-20, and DllMain's truncation of the log (line 257)
StubInit ==
    /\ InitStatics
    /\ files = {}
    /\ logOpens = TRUE

\* part_001 lines 57-61
Stub_OpenDriver ==
    /\ cpc = "ready"
    /\ g_bOpen' = TRUE
    /\ LogCommand(<<Line("OPEN", 0)>>)
    /\ Finish(Issue("OpenDriver", 0), "OK")
    /\ dwReturn' = 0
    /\ UNCHANGED <<g_dwCurrentTrack, g_dwNumTracks, g_dwTimeFormat, modeVars>>
    /\ StubKeep

\* part_001 lines 63-68
Stub_CloseDriver ==
    /\ cpc = "ready"
    /\ g_bOpen' = FALSE
    /\ g_bPlaying' = FALSE
    /\ LogCommand(<<Line("CLOSE", 0)>>)
    /\ Finish(Issue("CloseDriver", 0), "OK")
    /\ dwReturn' = 0
    /\ UNCHANGED <<g_dwCurrentTrack, g_dwNumTracks, g_dwTimeFormat, g_bPaused>>
    /\ StubKeep

StubGuardedOps == {"MciOpen", "MciClose", "Play", "Stop", "Pause", "Resume",
                   "Status"}

\* part_001 lines 70-71
Stub_NotReady(op) ==
    /\ cpc = "ready"
    /\ ~g_bOpen
    /\ Finish(Issue(op, 0), "MCIERR_DEVICE_NOT_READY")
    /\ dwReturn' = 0
    /\ UNCHANGED <<devVars, modeVars>>
    /\ NoLog
    /\ StubKeep

\* part_001 lines 74-76
Stub_MciOpen ==
    /\ cpc = "ready"
    /\ g_bOpen
    /\ LogCommand(<<Line("OPEN", 0)>>)
    /\ Finish(Issue("MciOpen", 0), "OK")
    /\ dwReturn' = 0
    /\ UNCHANGED <<devVars, modeVars>>
    /\ StubKeep

\* part_001 lines 78-81
Stub_MciClose ==
    /\ cpc = "ready"
    /\ g_bOpen
    /\ g_bPlaying' = FALSE
    /\ LogCommand(<<Line("CLOSE", 0)>>)
    /\ Finish(Issue("MciClose", 0), "OK")
    /\ dwReturn' = 0
    /\ UNCHANGED <<devVars, g_bPaused>>
    /\ StubKeep

\* part_001 lines 83-111; dwTo only goes into the text of the line
Stub_Play(hasFrom, dwFrom) ==
    /\ cpc = "ready"
    /\ g_bOpen
    /\ g_dwCurrentTrack' = PlayFrom(hasFrom, dwFrom)
    /\ g_bPlaying' = TRUE
    /\ g_bPaused' = FALSE
    /\ LogCommand(<<Line("PLAY", 0)>>)
    /\ Finish(Issue("Play", PlayFrom(hasFrom, dwFrom)), "OK")
    /\ dwReturn' = 0
    /\ UNCHANGED <<g_bOpen, g_dwNumTracks, g_dwTimeFormat>>
    /\ StubKeep

\* part_001 lines 113-117
Stub_Stop ==
    /\ cpc = "ready"
    /\ g_bOpen
    /\ g_bPlaying' = FALSE
    /\ g_bPaused' = FALSE
    /\ LogCommand(<<Line("STOP", 0)>>)
    /\ Finish(Issue("Stop", 0), "OK")
    /\ dwReturn' = 0
    /\ UNCHANGED devVars
    /\ StubKeep

\* part_001 lines 119-124
Stub_Pause ==
    /\ cpc = "ready"
    /\ g_bOpen
    /\ IF g_bPlaying
       THEN /\ g_bPaused' = TRUE
            /\ LogCommand(<<Line("PAUSE", 0)>>)
       ELSE /\ UNCHANGED g_bPaused
            /\ NoLog
    /\ Finish(Issue("Pause", 0), "OK")
    /\ dwReturn' = 0
    /\ UNCHANGED <<devVars, g_bPlaying>>
    /\ StubKeep

\* part_001 lines 126-131
Stub_Resume ==
    /\ cpc = "ready"
    /\ g_bOpen
    /\ IF g_bPaused
       THEN /\ g_bPaused' = FALSE
            /\ LogCommand(<<Line("RESUME", 0)>>)
       ELSE /\ UNCHANGED g_bPaused
            /\ NoLog
    /\ Finish(Issue("Resume", 0), "OK")
    /\ dwReturn' = 0
    /\ UNCHANGED <<devVars, g_bPlaying>>
    /\ StubKeep

\* part_001 lines 150-172 and 193: Status with the item MCI_STATUS_MODE
Stub_StatusMode ==
    /\ cpc = "ready"
    /\ g_bOpen
    /\ dwReturn' = IF g_bPlaying
                   THEN (IF g_bPaused THEN MCI_MODE_PAUSE ELSE MCI_MODE_PLAY)
                   ELSE MCI_MODE_STOP
    /\ Finish(Issue("Status", 0), "OK")
    /\ UNCHANGED <<devVars, modeVars>>
    /\ NoLog
    /\ StubKeep

StubNext ==
    /\ Len(log) < MaxStubCmds
    /\ \/ Stub_OpenDriver
       \/ Stub_CloseDriver
       \/ \E op \in StubGuardedOps : Stub_NotReady(op)
       \/ Stub_MciOpen
       \/ Stub_MciClose
       \/ \E hasFrom \in BOOLEAN, dwFrom \in LogTrackArgs :
              Stub_Play(hasFrom, dwFrom)
       \/ Stub_Stop
       \/ Stub_Pause
       \/ Stub_Resume
       \/ Stub_StatusMode

StubSpec == StubInit /\ [][StubNext]_vars

\* C39: in the log-only variant, paused is true only if playing is true
\* after any sequence of Open, Play, Pause, Resume, Stop and Close commands,
\* and no RESUME line is logged while Status(Mode) would report Stopped.
C39_StubPausedOnlyIfPlaying ==
    [][/\ g_bPaused' => g_bPlaying'
       /\ (cpc = "ready" /\ cmd'.op = "Resume" /\ Stub_Resume
              /\ Appended("RESUME"))
            => g_bPlaying]_vars

====
